---------------------------- MODULE Spec2Model ----------------------------
(***************************************************************************)
(* A model of citation-js-extra (src/src/index.ts): the Bibliography      *)
(* facade (constructor, filter, sort, formatEntry, formatHtml) and the     *)
(* HTML decoration helpers (sanitizeUrl, linkTitle, renderBadges,          *)
(* linkifyBareUrls).                                                       *)
(*                                                                         *)
(* A JavaScript string is modelled as the sequence of its characters, each *)
(* a one-character TLA+ string: "ab" is <<"a", "b">>.  The helpers work on *)
(* the characters, as the regular expressions of the source do.            *)
(***************************************************************************)
EXTENDS Integers, Sequences, FiniteSets, TLC

(***************************************************************************)
(* Characters.                                                             *)
(***************************************************************************)

\* The printable ASCII characters in code order: " " (32) to "_" (95), and
\* "a" (97) to "~" (126).
AsciiLow ==
  << " ", "!", "\"", "#", "$", "%", "&", "'", "(", ")", "*", "+", ",", "-",
     ".", "/", "0", "1", "2", "3", "4", "5", "6", "7", "8", "9", ":", ";",
     "<", "=", ">", "?", "@", "A", "B", "C", "D", "E", "F", "G", "H", "I",
     "J", "K", "L", "M", "N", "O", "P", "Q", "R", "S", "T", "U", "V", "W",
     "X", "Y", "Z", "[", "\\", "]", "^", "_" >>

AsciiHigh ==
  << "a", "b", "c", "d", "e", "f", "g", "h", "i", "j", "k", "l", "m", "n",
     "o", "p", "q", "r", "s", "t", "u", "v", "w", "x", "y", "z", "{", "|",
     "}", "~" >>

AsciiSet ==
  {AsciiLow[i] : i \in 1..Len(AsciiLow)} \cup {AsciiHigh[i] : i \in 1..Len(AsciiHigh)}

\* charCodeAt of a character: the code unit that "<" and ">" on strings compare.
CodeMap ==
  [c \in AsciiSet \cup {"\t", "\n"} |->
     IF c = "\t" THEN 9
     ELSE IF c = "\n" THEN 10
     ELSE IF \E i \in 1..Len(AsciiLow) : AsciiLow[i] = c
       THEN 31 + (CHOOSE i \in 1..Len(AsciiLow) : AsciiLow[i] = c)
     ELSE 96 + (CHOOSE i \in 1..Len(AsciiHigh) : AsciiHigh[i] = c)]

Code(c) == CodeMap[c]

\* String.prototype.toLowerCase and the regex flag i, on one character.
LowerMap ==
  [c \in AsciiSet \cup {"\t", "\n"} |->
     IF CodeMap[c] >= 65 /\ CodeMap[c] <= 90 THEN AsciiHigh[CodeMap[c] - 64]
     ELSE c]

LowerChar(c) == LowerMap[c]

\* The regex class \s.
IsSpace(c) == c \in {" ", "\t", "\n"}

\* The regex class \d.
IsDigit(c) == Code(c) >= 48 /\ Code(c) <= 57

\* The regex class \w, which decides the boundary \b.
IsWord(c) ==
  \/ IsDigit(c)
  \/ Code(c) >= 65 /\ Code(c) <= 90
  \/ Code(c) >= 97 /\ Code(c) <= 122
  \/ c = "_"

(***************************************************************************)
(* Strings.                                                                *)
(***************************************************************************)

\* s.toLowerCase()
toLowerCase(s) == [i \in 1..Len(s) |-> LowerChar(s[i])]

\* s.slice(i - 1): the characters of s from position i (1-based) on.
From(s, i) == SubSeq(s, i, Len(s))

\* The least member of hits in lo..hi, or 0 (the scans start at 1 or later):
\* the least of the first half, else the least of the second half.
RECURSIVE LeastIn(_, _, _)
LeastIn(hits, lo, hi) ==
  IF lo > hi THEN 0
  ELSE IF lo = hi THEN (IF lo \in hits THEN lo ELSE 0)
  ELSE LET mid == (lo + hi) \div 2
           left == LeastIn(hits, lo, mid)
       IN  IF left # 0 THEN left ELSE LeastIn(hits, mid + 1, hi)

\* The greatest member of hits in lo..hi, or 0.
RECURSIVE GreatestIn(_, _, _)
GreatestIn(hits, lo, hi) ==
  IF lo > hi THEN 0
  ELSE IF lo = hi THEN (IF lo \in hits THEN lo ELSE 0)
  ELSE LET mid == (lo + hi) \div 2
           right == GreatestIn(hits, mid + 1, hi)
       IN  IF right # 0 THEN right ELSE GreatestIn(hits, lo, mid)

\* Whether the characters of p occur in s at position i.
OccursAt(s, i, p) ==
  /\ i >= 1
  /\ i + Len(p) - 1 <= Len(s)
  /\ \A k \in 1..Len(p) : s[i + k - 1] = p[k]

\* s.startsWith(p)
startsWith(s, p) == OccursAt(s, 1, p)

\* s.endsWith(p)
endsWith(s, p) == OccursAt(s, Len(s) - Len(p) + 1, p)

\* s.includes(p)
includes(s, p) == \E i \in 1..(Len(s) + 1) : OccursAt(s, i, p)

\* s.trim()
trim(s) ==
  LET lo == LeastIn({j \in 1..Len(s) : ~IsSpace(s[j])}, 1, Len(s))
      hi == GreatestIn({j \in 1..Len(s) : ~IsSpace(s[j])}, 1, Len(s))
  IN  IF lo = 0 THEN <<>> ELSE SubSeq(s, lo, hi)

\* The concatenation of ss[lo], ..., ss[hi], by halves.
RECURSIVE ConcatRange(_, _, _)
ConcatRange(ss, lo, hi) ==
  IF lo > hi THEN <<>>
  ELSE IF lo = hi THEN ss[lo]
  ELSE ConcatRange(ss, lo, (lo + hi) \div 2) \o ConcatRange(ss, ((lo + hi) \div 2) + 1, hi)

\* The concatenation of a sequence of strings (Array.prototype.join("")).
Concat(ss) == ConcatRange(ss, 1, Len(ss))

\* Array.prototype.join(sep)
join(ss, sep) ==
  Concat([i \in 1..(2 * Len(ss) - 1) |-> IF i % 2 = 1 THEN ss[(i + 1) \div 2] ELSE sep])

\* s.replace(/&/g, "&amp;").replace(/"/g, "&quot;").replace(/</g, "&lt;")
\* The three passes touch disjoint characters, "&" first, so one pass over
\* the input gives the same string.
escapeAttrChar(c) ==
  CASE c = "&" -> <<"&", "a", "m", "p", ";">>
    [] c = "\"" -> <<"&", "q", "u", "o", "t", ";">>
    [] c = "<" -> <<"&", "l", "t", ";">>
    [] OTHER -> <<c>>

escapeAttr(s) == Concat([i \in 1..Len(s) |-> escapeAttrChar(s[i])])

\* The five replacements of escapeHtml, "&" first.
escapeHtmlChar(c) ==
  CASE c = "&" -> <<"&", "a", "m", "p", ";">>
    [] c = "<" -> <<"&", "l", "t", ";">>
    [] c = ">" -> <<"&", "g", "t", ";">>
    [] c = "\"" -> <<"&", "q", "u", "o", "t", ";">>
    [] c = "'" -> <<"&", "#", "3", "9", ";">>
    [] OTHER -> <<c>>

escapeHtml(s) == Concat([i \in 1..Len(s) |-> escapeHtmlChar(s[i])])

(***************************************************************************)
(* The tag-boundary tokenizer and the three flags of both scanners.        *)
(***************************************************************************)

\* The least position >= i of s that holds character c, or 0.
IndexFrom(s, i, c) == LeastIn({j \in i..Len(s) : s[j] = c}, i, Len(s))

\* html.split(/(<[^>]*>)/g): text, tag, text, tag, ..., text.  A tag runs from
\* a "<" to the first ">" after it; a "<" that no ">" follows stays in the last
\* text token.
RECURSIVE SplitFrom(_, _)
SplitFrom(s, i) ==
  LET lt == IndexFrom(s, i, "<")
      gt == IF lt = 0 THEN 0 ELSE IndexFrom(s, lt + 1, ">")
  IN  IF gt = 0 THEN << From(s, i) >>
      ELSE << SubSeq(s, i, lt - 1), SubSeq(s, lt, gt) >> \o SplitFrom(s, gt + 1)

splitTags(html) == SplitFrom(html, 1)

\* /^<name\b/.test(lower): the token starts with "<name" (or "</name") and no
\* word character follows.
TagTest(lower, prefix) ==
  /\ startsWith(lower, prefix)
  /\ Len(lower) = Len(prefix) \/ ~IsWord(lower[Len(prefix) + 1])

OpenA == <<"<", "a">>
CloseA == <<"<", "/", "a">>
OpenScript == <<"<", "s", "c", "r", "i", "p", "t">>
CloseScript == <<"<", "/", "s", "c", "r", "i", "p", "t">>
OpenStyle == <<"<", "s", "t", "y", "l", "e">>
CloseStyle == <<"<", "/", "s", "t", "y", "l", "e">>

NoFlags == [insideAnchor |-> FALSE, insideScript |-> FALSE, insideStyle |-> FALSE]

\* A variant of the tests on the token as written, not in lower case.
UpdateFlagsAsWritten(flags, token) ==
  LET a1 == IF TagTest(token, OpenA) THEN TRUE ELSE flags.insideAnchor
      a2 == IF TagTest(token, CloseA) THEN FALSE ELSE a1
      sc1 == IF TagTest(token, OpenScript) THEN TRUE ELSE flags.insideScript
      sc2 == IF TagTest(token, CloseScript) THEN FALSE ELSE sc1
      st1 == IF TagTest(token, OpenStyle) THEN TRUE ELSE flags.insideStyle
      st2 == IF TagTest(token, CloseStyle) THEN FALSE ELSE st1
  IN  [insideAnchor |-> a2, insideScript |-> sc2, insideStyle |-> st2]

\* A variant of the tests that does not follow <style>.
UpdateFlagsNoStyle(flags, token) ==
  LET lower == toLowerCase(token)
      a1 == IF TagTest(lower, OpenA) THEN TRUE ELSE flags.insideAnchor
      a2 == IF TagTest(lower, CloseA) THEN FALSE ELSE a1
      sc1 == IF TagTest(lower, OpenScript) THEN TRUE ELSE flags.insideScript
      sc2 == IF TagTest(lower, CloseScript) THEN FALSE ELSE sc1
  IN  [insideAnchor |-> a2, insideScript |-> sc2, insideStyle |-> flags.insideStyle]

\* The six tests a scanner makes, in the order of the source, on a token that
\* starts with "<".
UpdateFlags(flags, token) ==
  LET lower == toLowerCase(token)
      a1 == IF TagTest(lower, OpenA) THEN TRUE ELSE flags.insideAnchor
      a2 == IF TagTest(lower, CloseA) THEN FALSE ELSE a1
      sc1 == IF TagTest(lower, OpenScript) THEN TRUE ELSE flags.insideScript
      sc2 == IF TagTest(lower, CloseScript) THEN FALSE ELSE sc1
      st1 == IF TagTest(lower, OpenStyle) THEN TRUE ELSE flags.insideStyle
      st2 == IF TagTest(lower, CloseStyle) THEN FALSE ELSE st1
  IN  [insideAnchor |-> a2, insideScript |-> sc2, insideStyle |-> st2]

Inside(flags) == flags.insideAnchor \/ flags.insideScript \/ flags.insideStyle

\* The flags of a scanner at each token of its loop from position k on: at a
\* tag, the flags once its six tests are made; at a text, the flags it is
\* scanned with.  Both scanners make the same tests.
RECURSIVE FlagTrace(_, _, _)
FlagTrace(tokens, k, flags) ==
  IF k > Len(tokens) THEN <<>>
  ELSE IF startsWith(tokens[k], <<"<">>)
    THEN << UpdateFlags(flags, tokens[k]) >>
         \o FlagTrace(tokens, k + 1, UpdateFlags(flags, tokens[k]))
  ELSE << flags >> \o FlagTrace(tokens, k + 1, flags)

(***************************************************************************)
(* linkifyBareUrls.                                                        *)
(***************************************************************************)

Http == <<"h", "t", "t", "p", ":", "/", "/">>
Https == <<"h", "t", "t", "p", "s", ":", "/", "/">>

\* A variant of the class that lets a closing parenthesis into the match.
IsUrlCharLoose(c) == ~IsSpace(c) /\ c \notin {"<", ">", "\"", "'", ",", ";"}

\* The class [^\s<>"',;)] of urlRegex.
IsUrlChar(c) == ~IsSpace(c) /\ c \notin {"<", ">", "\"", "'", ",", ";", ")"}

\* The class [.,;:!?)] of the trailing-punctuation regex.
IsTrailing(c) == c \in {".", ",", ";", ":", "!", "?", ")"}

\* The end of the run of URL characters that starts at position i (i - 1 if
\* there is none).
UrlRunEnd(s, i) ==
  LET stop == LeastIn({j \in i..Len(s) : ~IsUrlChar(s[j])}, i, Len(s))
  IN  IF stop = 0 THEN Len(s) ELSE stop - 1

\* The last position of the match of urlRegex that starts at position i, or 0:
\* "http", an optional "s", "://", and then one or more URL characters.
UrlMatchEnd(s, i) ==
  LET body == IF OccursAt(s, i, Https) THEN i + Len(Https)
              ELSE IF OccursAt(s, i, Http) THEN i + Len(Http)
              ELSE 0
  IN  IF body # 0 /\ UrlRunEnd(s, body) >= body THEN UrlRunEnd(s, body) ELSE 0

\* match.replace(/[.,;:!?)]+$/, "")
stripTrailing(m) ==
  SubSeq(m, 1, GreatestIn({j \in 1..Len(m) : ~IsTrailing(m[j])}, 1, Len(m)))

AnchorOpen(href) ==
  <<"<", "a", " ", "h", "r", "e", "f", "=", "\"">> \o href \o <<"\"", ">">>

AnchorClose == <<"<", "/", "a", ">">>

\* A variant of the callback that writes the escaped URL as the link text too.
LinkifyMatchEscaped(match) ==
  AnchorOpen(escapeAttr(stripTrailing(match))) \o escapeAttr(stripTrailing(match))
  \o AnchorClose \o From(match, Len(stripTrailing(match)) + 1)

\* The replacement callback of linkifyBareUrls.
LinkifyMatch(match) ==
  LET trimmed == stripTrailing(match)
      trailing == From(match, Len(trimmed) + 1)
  IN  AnchorOpen(escapeAttr(trimmed)) \o trimmed \o AnchorClose \o trailing

\* token.replace(urlRegex, callback), the matches taken left to right from
\* position i on.
RECURSIVE LinkifyText(_, _)
LinkifyText(s, i) ==
  LET at == LeastIn({j \in i..Len(s) : UrlMatchEnd(s, j) # 0}, i, Len(s))
      e == UrlMatchEnd(s, at)
  IN  IF at = 0 THEN From(s, i)
      ELSE SubSeq(s, i, at - 1) \o LinkifyMatch(SubSeq(s, at, e)) \o LinkifyText(s, e + 1)

\* The loop of linkifyBareUrls over the tokens from position k on.
RECURSIVE LinkifyTokens(_, _, _)
LinkifyTokens(tokens, k, flags) ==
  IF k > Len(tokens) THEN <<>>
  ELSE LET token == tokens[k]
       IN  IF startsWith(token, <<"<">>)
             THEN token \o LinkifyTokens(tokens, k + 1, UpdateFlags(flags, token))
           ELSE IF Inside(flags)
             THEN token \o LinkifyTokens(tokens, k + 1, flags)
           ELSE LinkifyText(token, 1) \o LinkifyTokens(tokens, k + 1, flags)

linkifyBareUrls(html) == LinkifyTokens(splitTags(html), 1, NoFlags)

(***************************************************************************)
(* JavaScript values and plain objects.                                    *)
(*                                                                         *)
(* A plain object is a function from its own property names to values; a   *)
(* property read obj[name] also sees what Object.prototype defines.  Field *)
(* names are TLA+ strings; field values are character sequences.           *)
(***************************************************************************)

Undefined == [kind |-> "undefined"]
Null == [kind |-> "null"]
Str(s) == [kind |-> "string", chars |-> s]
Num(n) == [kind |-> "number", num |-> n]
Obj(x) == [kind |-> "object", of |-> x]
\* Object.prototype.constructor, the function Object.
ObjectFn == [kind |-> "function"]

\* The object with no own property: {}.
EmptyObj == [n \in {} |-> <<>>]

\* The names, among the field names of the model, that Object.prototype defines.
ProtoNames == {"constructor"}

\* obj[name]: the own property, else the inherited one, else undefined.
Get(obj, name) ==
  IF name \in DOMAIN obj
    THEN IF name = "issued" THEN Obj(obj[name]) ELSE Str(obj[name])
  ELSE IF name \in ProtoNames THEN ObjectFn
  ELSE Undefined

\* v == null
IsNullish(v) == v.kind \in {"undefined", "null"}

\* !v
IsFalsy(v) == IsNullish(v) \/ (v.kind = "string" /\ v.chars = <<>>)

\* a ?? b
Coalesce(a, b) == IF IsNullish(a) THEN b ELSE a

\* String(Object): "function Object() { [native code] }"
NativeCode ==
  << "f", "u", "n", "c", "t", "i", "o", "n", " ", "O", "b", "j", "e", "c",
     "t", "(", ")", " ", "{", " ", "[", "n", "a", "t", "i", "v", "e", " ",
     "c", "o", "d", "e", "]", " ", "}" >>

Digit == <<"0", "1", "2", "3", "4", "5", "6", "7", "8", "9">>

\* String(n) for an integer n >= 0.
RECURSIVE NatString(_)
NatString(n) ==
  IF n < 10 THEN <<Digit[n + 1]>> ELSE NatString(n \div 10) \o <<Digit[(n % 10) + 1]>>

\* String(v)
String(v) ==
  CASE v.kind = "string" -> v.chars
    [] v.kind = "function" -> NativeCode
    [] v.kind = "undefined" -> <<"u", "n", "d", "e", "f", "i", "n", "e", "d">>
    [] v.kind = "null" -> <<"n", "u", "l", "l">>
    [] v.kind = "number" ->
         IF v.num < 0 THEN <<"-">> \o NatString(-v.num) ELSE NatString(v.num)
    [] OTHER ->
         << "[", "o", "b", "j", "e", "c", "t", " ", "O", "b", "j", "e", "c",
            "t", "]" >>

\* a < b on strings: the order of the code units at the first difference, a
\* proper prefix first.
StrLess(a, b) ==
  LET n == IF Len(a) < Len(b) THEN Len(a) ELSE Len(b)
      d == LeastIn({j \in 1..n : a[j] # b[j]}, 1, n)
  IN  IF d = 0 THEN Len(a) < Len(b) ELSE Code(a[d]) < Code(b[d])

\* a < b on two numbers or on two values compared as strings.
Less(a, b) ==
  IF a.kind = "number" /\ b.kind = "number" THEN a.num < b.num
  ELSE StrLess(String(a), String(b))

(***************************************************************************)
(* Bibliography: the constructor.                                          *)
(***************************************************************************)

\* The loop that fills rawMap: a later record of the same label replaces an
\* earlier one.
RECURSIVE RawMapOf(_)
RawMapOf(rawEntries) ==
  IF rawEntries = <<>> THEN [l \in {} |-> EmptyObj]
  ELSE LET last == rawEntries[Len(rawEntries)]
           rest == RawMapOf(SubSeq(rawEntries, 1, Len(rawEntries) - 1))
       IN  [l \in DOMAIN rest \cup {last.label} |->
              IF l = last.label THEN last.properties ELSE rest[l]]

\* String(csl["citation-key"] || csl.id)
KeyOf(csl) ==
  LET ck == Get(csl, "citation-key")
  IN  String(IF IsFalsy(ck) THEN Get(csl, "id") ELSE ck)

\* rawMap.get(key) ?? {}
RawOf(rawMap, key) == IF key \in DOMAIN rawMap THEN rawMap[key] ELSE EmptyObj

\* The loop over customFieldNames: custom[f] = String(raw[f]) if raw[f] != null.
CustomOf(raw, customFieldNames) ==
  [f \in {customFieldNames[i] : i \in
            {j \in 1..Len(customFieldNames) : ~IsNullish(Get(raw, customFieldNames[j]))}}
     |-> String(Get(raw, f))]

\* csl.issued?.["date-parts"]?.[0]?.[0] ?? null
YearOf(csl) ==
  IF "issued" \in DOMAIN csl /\ Len(csl["issued"]) >= 1 /\ Len(csl["issued"][1]) >= 1
    THEN Num(csl["issued"][1][1])
  ELSE Null

\* The callback of cite.data.map.
EntryOf(csl, rawMap, customFieldNames) ==
  LET key == KeyOf(csl)
      raw == RawOf(rawMap, key)
  IN  [csl |-> csl, key |-> key, year |-> YearOf(csl),
       custom |-> CustomOf(raw, customFieldNames), raw |-> raw]

\* A variant that follows the raw records: one entry per raw record, for the
\* normalized record of its label (the first record when there is none).
BuildEntriesInRawOrder(rawEntries, cslData, customFieldNames) ==
  [i \in 1..(IF cslData = <<>> THEN 0 ELSE Len(rawEntries)) |->
     LET at == LeastIn({j \in 1..Len(cslData) : KeyOf(cslData[j]) = rawEntries[i].label},
                       1, Len(cslData))
     IN  EntryOf(cslData[IF at = 0 THEN 1 ELSE at], RawMapOf(rawEntries), customFieldNames)]

\* this.entries, from the raw records and the normalized records that the
\* engine parses out of options.data.
BuildEntries(rawEntries, cslData, customFieldNames) ==
  [i \in 1..Len(cslData) |-> EntryOf(cslData[i], RawMapOf(rawEntries), customFieldNames)]

(***************************************************************************)
(* Bibliography: filter and sort.                                          *)
(***************************************************************************)

\* A variant with `some` in place of `every`: one criterion met is enough.
MatchesAny(e, criteria) == \E k \in DOMAIN criteria : Get(e.custom, k) = Str(criteria[k])

\* Object.entries(criteria).every(([k, v]) => e.custom[k] === v)
Matches(e, criteria) == \A k \in DOMAIN criteria : Get(e.custom, k) = Str(criteria[k])

\* Array.prototype.filter: the members that pass, in their order.
RECURSIVE filterEntries(_, _)
filterEntries(es, criteria) ==
  IF es = <<>> THEN <<>>
  ELSE IF Matches(Head(es), criteria) THEN <<Head(es)>> \o filterEntries(Tail(es), criteria)
  ELSE filterEntries(Tail(es), criteria)

\* by === "year" ? (e.year ?? 0) : (e.custom[by] ?? "")
SortValue(e, by) ==
  IF by = "year" THEN Coalesce(e.year, Num(0))
  ELSE Coalesce(Get(e.custom, by), Str(<<>>))

\* A variant of the comparator that ignores the order asked for.
CompareIgnoringOrder(a, b, by, order) ==
  LET va == SortValue(a, by)
      vb == SortValue(b, by)
  IN  IF Less(va, vb) THEN -1 ELSE IF Less(vb, va) THEN 1 ELSE 0

\* The comparator of sort.
Compare(a, b, by, order) ==
  LET va == SortValue(a, by)
      vb == SortValue(b, by)
      cmp == IF Less(va, vb) THEN -1 ELSE IF Less(vb, va) THEN 1 ELSE 0
  IN  IF order = "desc" THEN -cmp ELSE cmp

\* A variant of the step that is not stable: x goes in front of its equals.
RECURSIVE InsertSortedUnstable(_, _, _, _)
InsertSortedUnstable(sorted, x, by, order) ==
  IF sorted = <<>> THEN <<x>>
  ELSE IF Compare(sorted[Len(sorted)], x, by, order) >= 0
    THEN InsertSortedUnstable(SubSeq(sorted, 1, Len(sorted) - 1), x, by, order)
         \o <<sorted[Len(sorted)]>>
  ELSE sorted \o <<x>>

\* One step of a stable sort: x goes behind every member it does not precede.
RECURSIVE InsertSorted(_, _, _, _)
InsertSorted(sorted, x, by, order) ==
  IF sorted = <<>> THEN <<x>>
  ELSE IF Compare(sorted[Len(sorted)], x, by, order) > 0
    THEN InsertSorted(SubSeq(sorted, 1, Len(sorted) - 1), x, by, order)
         \o <<sorted[Len(sorted)]>>
  ELSE sorted \o <<x>>

\* Array.prototype.sort with the comparator: stable since ES2019.
RECURSIVE sortEntries(_, _, _)
sortEntries(es, by, order) ==
  IF es = <<>> THEN <<>>
  ELSE InsertSorted(sortEntries(SubSeq(es, 1, Len(es) - 1), by, order), es[Len(es)], by, order)

\* The defaults of the second parameter of sort: { by = "year", order = "desc" }.
ByOf(opts) == IF "by" \in DOMAIN opts THEN opts["by"] ELSE "year"

OrderOf(opts) == IF "order" \in DOMAIN opts THEN opts["order"] ELSE "desc"

\* sort(entries, opts): the array that the call returns.
sort(entries, opts) == sortEntries(entries, ByOf(opts), OrderOf(opts))

\* A variant without the copy: Array.prototype.sort reorders the argument.
SortArgumentInPlace(entries, opts) == sort(entries, opts)

\* The array passed to sort, after the call: [...entries] copies it and the
\* copy is what Array.prototype.sort reorders.
SortArgument(entries, opts) == entries

\* filter(criteria): the array that the call returns.
filter(entries, criteria) == filterEntries(entries, criteria)

(***************************************************************************)
(* The URL safety gate and the title-link resolution.                      *)
(***************************************************************************)

Mailto == <<"m", "a", "i", "l", "t", "o", ":">>

\* /^https?:\/\//i.test(s) || /^mailto:/i.test(s)
HasLinkScheme(s) ==
  LET lower == toLowerCase(s)
  IN  startsWith(lower, Http) \/ startsWith(lower, Https) \/ startsWith(lower, Mailto)

\* A variant of the gate without the test of the scheme.
sanitizeUrlAnyScheme(url) ==
  LET trimmed == trim(url)
  IN  IF trimmed = <<>> THEN Null ELSE Str(trimmed)

\* A variant of the gate that returns the candidate as it came.
sanitizeUrlUntrimmed(url) ==
  LET trimmed == trim(url)
  IN  IF trimmed = <<>> THEN Null
      ELSE IF HasLinkScheme(trimmed) THEN Str(url)
      ELSE Null

\* sanitizeUrl(url): the trimmed URL, or null.
sanitizeUrl(url) ==
  LET trimmed == trim(url)
  IN  IF trimmed = <<>> THEN Null
      ELSE IF HasLinkScheme(trimmed) THEN Str(trimmed)
      ELSE Null

\* field.toUpperCase(), on the field names of the model.
UpperName(field) ==
  CASE field = "url" -> "URL"
    [] field = "doi" -> "DOI"
    [] field = "arxiv" -> "ARXIV"
    [] field = "note" -> "NOTE"
    [] field = "st" -> "ST"
    [] field = "zbl" -> "ZBL"
    [] field = "title" -> "TITLE"
    [] field = "constructor" -> "CONSTRUCTOR"
    [] OTHER -> field

\* The first position >= i of s that holds no whitespace (Len(s) + 1 if none).
SkipSpace(s, i) ==
  LET at == LeastIn({j \in i..Len(s) : ~IsSpace(s[j])}, i, Len(s))
  IN  IF at = 0 THEN Len(s) + 1 ELSE at

\* raw.replace(/^doi:\s*/i, "")
stripDoiPrefix(raw) ==
  IF startsWith(toLowerCase(raw), <<"d", "o", "i", ":">>) THEN From(raw, SkipSpace(raw, 5))
  ELSE raw

\* Whether s from position i on is a "v" and then one or more digits.
IsVersionAt(s, i) ==
  /\ i < Len(s)
  /\ s[i] = "v"
  /\ \A k \in (i + 1)..Len(s) : IsDigit(s[k])

\* raw.replace(/v\d+$/, "")
stripVersion(raw) ==
  IF \E i \in 1..Len(raw) : IsVersionAt(raw, i)
    THEN SubSeq(raw, 1, (CHOOSE i \in 1..Len(raw) : IsVersionAt(raw, i)) - 1)
  ELSE raw

DoiOrg ==
  << "h", "t", "t", "p", "s", ":", "/", "/", "d", "o", "i", ".", "o", "r",
     "g", "/" >>

ArxivAbs ==
  << "h", "t", "t", "p", "s", ":", "/", "/", "a", "r", "x", "i", "v", ".",
     "o", "r", "g", "/", "a", "b", "s", "/" >>

\* The default of the parameter `fields` of resolveTitleLink.
DefaultTitleLink == <<"url", "doi", "arxiv">>

\* A variant of the loop in which a later candidate overrides an earlier one.
RECURSIVE ResolveLastFrom(_, _, _)
ResolveLastFrom(entry, fields, k) ==
  IF k > Len(fields) THEN Null
  ELSE LET field == fields[k]
           value == Coalesce(Get(entry.raw, field),
                             Coalesce(Get(entry.csl, UpperName(field)),
                                      Get(entry.csl, field)))
           raw == trim(String(value))
           later == ResolveLastFrom(entry, fields, k + 1)
       IN  IF later # Null THEN later
           ELSE IF IsFalsy(value) \/ raw = <<>> THEN Null
           ELSE IF HasLinkScheme(raw) THEN sanitizeUrl(raw)
           ELSE IF field = "doi" THEN sanitizeUrl(DoiOrg \o stripDoiPrefix(raw))
           ELSE IF field = "arxiv" THEN sanitizeUrl(ArxivAbs \o stripVersion(raw))
           ELSE Null

\* The loop of resolveTitleLink over order[k], order[k + 1], ...
RECURSIVE ResolveFrom(_, _, _)
ResolveFrom(entry, order, k) ==
  IF k > Len(order) THEN Null
  ELSE LET field == order[k]
           value == Coalesce(Get(entry.raw, field),
                             Coalesce(Get(entry.csl, UpperName(field)),
                                      Get(entry.csl, field)))
           raw == trim(String(value))
       IN  IF IsFalsy(value) THEN ResolveFrom(entry, order, k + 1)
           ELSE IF raw = <<>> THEN ResolveFrom(entry, order, k + 1)
           ELSE IF HasLinkScheme(raw) THEN sanitizeUrl(raw)
           ELSE IF field = "doi" THEN sanitizeUrl(DoiOrg \o stripDoiPrefix(raw))
           ELSE IF field = "arxiv" THEN sanitizeUrl(ArxivAbs \o stripVersion(raw))
           ELSE ResolveFrom(entry, order, k + 1)

\* resolveTitleLink(entry, fields); fields is Undefined or an array of names.
resolveTitleLink(entry, fields) ==
  ResolveFrom(entry, IF IsNullish(fields) THEN DefaultTitleLink ELSE fields.of, 1)

(***************************************************************************)
(* The title linker.                                                       *)
(***************************************************************************)

\* buildHtmlTextPattern(text): per character of the title, the alternatives
\* the pattern accepts, in the order of the alternation.
PatternChar(ch) ==
  CASE ch = "&" -> << <<"&", "a", "m", "p", ";">>, <<"&", "#", "3", "8", ";">> >>
    [] ch = "<" -> << <<"&", "l", "t", ";">> >>
    [] ch = ">" -> << <<"&", "g", "t", ";">> >>
    [] ch = "\"" -> << <<"&", "q", "u", "o", "t", ";">>, <<"&", "#", "3", "4", ";">> >>
    [] ch = "'" -> << <<"&", "#", "3", "9", ";">>, <<"&", "a", "p", "o", "s", ";">> >>
    [] OTHER -> << <<ch>> >>

buildHtmlTextPattern(text) == [i \in 1..Len(text) |-> PatternChar(text[i])]

\* The last position of the match of pattern[k..] at position i of s, or -1
\* (an empty rest of the pattern matches and ends at i - 1).
RECURSIVE PatternEnd(_, _, _, _)
PatternEnd(s, i, pattern, k) ==
  IF k > Len(pattern) THEN i - 1
  ELSE LET alts == pattern[k]
           hit == {a \in 1..Len(alts) : OccursAt(s, i, alts[a])}
       IN  IF hit = {} THEN -1
           ELSE LET a == CHOOSE x \in hit : \A y \in hit : x <= y
                IN  PatternEnd(s, i + Len(alts[a]), pattern, k + 1)

\* The first position of s at which the pattern matches, or 0.
PatternStart(s, i, pattern) ==
  LeastIn({j \in i..Len(s) : PatternEnd(s, j, pattern, 1) >= j}, i, Len(s))

\* A variant of the loop that does not remember that it has linked a token.
RECURSIVE LinkTitleEveryToken(_, _, _, _, _, _)
LinkTitleEveryToken(tokens, k, flags, linked, pattern, url) ==
  IF k > Len(tokens) THEN <<>>
  ELSE LET token == tokens[k]
           at == PatternStart(token, 1, pattern)
           end == PatternEnd(token, at, pattern, 1)
       IN  IF startsWith(token, <<"<">>)
             THEN token \o LinkTitleEveryToken(tokens, k + 1, UpdateFlags(flags, token),
                                               linked, pattern, url)
           ELSE IF linked \/ Inside(flags) \/ at = 0
             THEN token \o LinkTitleEveryToken(tokens, k + 1, flags, linked, pattern, url)
           ELSE SubSeq(token, 1, at - 1)
                \o AnchorOpen(escapeAttr(url)) \o SubSeq(token, at, end) \o AnchorClose
                \o From(token, end + 1)
                \o LinkTitleEveryToken(tokens, k + 1, flags, linked, pattern, url)

\* The loop of linkTitle over the tokens from position k on.
RECURSIVE LinkTitleTokens(_, _, _, _, _, _)
LinkTitleTokens(tokens, k, flags, linked, pattern, url) ==
  IF k > Len(tokens) THEN <<>>
  ELSE LET token == tokens[k]
           at == PatternStart(token, 1, pattern)
                end == PatternEnd(token, at, pattern, 1)
       IN  IF startsWith(token, <<"<">>)
             THEN token \o LinkTitleTokens(tokens, k + 1, UpdateFlags(flags, token),
                                           linked, pattern, url)
           ELSE IF linked \/ Inside(flags) \/ at = 0
             THEN token \o LinkTitleTokens(tokens, k + 1, flags, linked, pattern, url)
           ELSE SubSeq(token, 1, at - 1)
                \o AnchorOpen(escapeAttr(url)) \o SubSeq(token, at, end) \o AnchorClose
                \o From(token, end + 1)
                \o LinkTitleTokens(tokens, k + 1, flags, TRUE, pattern, url)

\* linkTitle(html, title, url)
linkTitle(html, title, url) ==
  LET pattern == buildHtmlTextPattern(title)
  IN  IF pattern = <<>> THEN html
      ELSE LinkTitleTokens(splitTags(html), 1, NoFlags, FALSE, pattern, url)

(***************************************************************************)
(* The badge renderer.                                                     *)
(*                                                                         *)
(* A badge is [field, label, url, match, className]; className is a value  *)
(* (a string or Undefined), and match names the RegExp of the descriptor:   *)
(*   "none"    no match property                                           *)
(*   "zbl"     /^(\d+\.\d+)$/          (test/index.test.ts, BADGES)        *)
(*   "arxiv"   /^(.+?)(?:v\d+)?$/      (test/index.test.ts, BADGES)        *)
(*   "digits"  /\d+/                   (a pattern with no capture group)   *)
(***************************************************************************)

\* The end of the run of digits that starts at position i (i - 1 if none).
DigitRunEnd(s, i) ==
  LET stop == LeastIn({j \in i..Len(s) : ~IsDigit(s[j])}, i, Len(s))
  IN  IF stop = 0 THEN Len(s) ELSE stop - 1

\* The result array of a match: m[0], and m[1] (Undefined without a group).
MatchResult(whole, group) == Obj(<<Str(whole), group>>)

\* strValue.match(/^(\d+\.\d+)$/)
MatchZbl(s) ==
  LET e1 == DigitRunEnd(s, 1)
      e2 == DigitRunEnd(s, e1 + 2)
  IN  IF /\ e1 >= 1
         /\ e1 + 1 <= Len(s)
         /\ s[e1 + 1] = "."
         /\ e2 >= e1 + 2
         /\ e2 = Len(s)
        THEN MatchResult(s, Str(s))
      ELSE Null

\* strValue.match(/^(.+?)(?:v\d+)?$/): the shortest non-empty prefix that a
\* version suffix, or nothing, follows; "." takes no line break.
MatchArxiv(s) ==
  LET cut == {i \in 2..Len(s) : IsVersionAt(s, i)}
      len == IF cut = {} THEN Len(s) ELSE (CHOOSE i \in cut : \A j \in cut : i <= j) - 1
  IN  IF s = <<>> \/ \E i \in 1..len : s[i] = "\n" THEN Null
      ELSE MatchResult(s, Str(SubSeq(s, 1, len)))

\* The first position >= i of s that holds a digit, or 0.
DigitFrom(s, i) == LeastIn({j \in i..Len(s) : IsDigit(s[j])}, i, Len(s))

\* strValue.match(/\d+/)
MatchDigits(s) ==
  LET at == DigitFrom(s, 1)
  IN  IF at = 0 THEN Null
      ELSE MatchResult(SubSeq(s, at, DigitRunEnd(s, at)), Undefined)

\* strValue.match(badge.match)
RegexMatch(re, s) ==
  CASE re = "zbl" -> MatchZbl(s)
    [] re = "arxiv" -> MatchArxiv(s)
    [] OTHER -> MatchDigits(s)

Placeholder == <<"$", "1">>

\* Whether a replacement pattern ("$$", "$&" or "$'") starts at position j.
IsDollarPattern(repl, j) ==
  j < Len(repl) /\ repl[j] = "$" /\ repl[j + 1] \in {"$", "&", "'"}

\* The replacement string of String.prototype.replace, expanded for one match
\* of /\$1/ (which has no capture group, so "$1" in it stays as it is):
\* "$$" gives "$", "$&" the matched text, "$'" the text after the match.
RECURSIVE ExpandReplacement(_, _, _)
ExpandReplacement(repl, i, after) ==
  LET at == LeastIn({j \in i..Len(repl) : IsDollarPattern(repl, j)}, i, Len(repl))
      put == CASE repl[at + 1] = "$" -> <<"$">>
               [] repl[at + 1] = "&" -> Placeholder
               [] OTHER -> after
  IN  IF at = 0 THEN From(repl, i)
      ELSE SubSeq(repl, i, at - 1) \o put \o ExpandReplacement(repl, at + 2, after)

\* badge.url.replace(/\$1/g, insertValue), from position i of the template on.
RECURSIVE FillTemplate(_, _, _)
FillTemplate(url, i, insertValue) ==
  LET at == LeastIn({j \in i..Len(url) : OccursAt(url, j, Placeholder)}, i, Len(url))
  IN  IF at = 0 THEN From(url, i)
      ELSE SubSeq(url, i, at - 1)
           \o ExpandReplacement(insertValue, 1, From(url, at + 2))
           \o FillTemplate(url, at + 2, insertValue)

ClassAttr(className) ==
  <<" ", "c", "l", "a", "s", "s", "=", "\"">> \o escapeAttr(className) \o <<"\"">>

\* The anchor that renderBadges pushes for a badge whose URL passed the gate.
BadgeAnchor(badge, safeUrl) ==
  <<"<", "a">>
  \o (IF IsFalsy(badge.className) THEN <<>> ELSE ClassAttr(badge.className.chars))
  \o <<" ", "h", "r", "e", "f", "=", "\"">> \o escapeAttr(safeUrl) \o <<"\"", ">">>
  \o escapeHtml(badge.label) \o AnchorClose

\* One turn of the loop of renderBadges, in the order of its statements: the
\* parts the badge adds (one or none).
\* if (!safeUrl) continue; parts.push(`<a ...>`)
BadgeOfUrl(badge, safeUrl) ==
  IF IsNullish(safeUrl) THEN <<>> ELSE << BadgeAnchor(badge, safeUrl.chars) >>

\* const safeUrl = sanitizeUrl(badge.url.replace(/\$1/g, insertValue))
BadgeOfInsert(badge, insertValue) ==
  BadgeOfUrl(badge, sanitizeUrl(FillTemplate(badge.url, 1, insertValue)))

\* if (!m) continue; insertValue = m[1] ?? m[0]
BadgeOfMatch(badge, m) ==
  IF IsNullish(m) THEN <<>>
  ELSE BadgeOfInsert(badge, String(Coalesce(m.of[2], m.of[1])))

\* let insertValue = strValue; if (badge.match) { const m = strValue.match(...) }
BadgeOfString(badge, strValue) ==
  IF badge.match = "none" THEN BadgeOfInsert(badge, strValue)
  ELSE BadgeOfMatch(badge, RegexMatch(badge.match, strValue))

\* if (rawValue == null) continue; const strValue = String(rawValue)
BadgeOfValue(badge, rawValue) ==
  IF IsNullish(rawValue) THEN <<>> ELSE BadgeOfString(badge, String(rawValue))

\* const rawValue = entry.raw[badge.field] ?? entry.custom[badge.field]
BadgePart(entry, badge) ==
  BadgeOfValue(badge,
    Coalesce(Get(entry.raw, badge.field), Get(entry.custom, badge.field)))

\* The array `parts` after the loop over the badges.
RECURSIVE BadgeParts(_, _)
BadgeParts(entry, badges) ==
  IF badges = <<>> THEN <<>>
  ELSE BadgePart(entry, Head(badges)) \o BadgeParts(entry, Tail(badges))

SpanOpen ==
  << "<", "s", "p", "a", "n", " ", "c", "l", "a", "s", "s", "=", "\"", "b",
     "i", "b", "-", "l", "i", "n", "k", "s", "\"", ">" >>

SpanClose == <<"<", "/", "s", "p", "a", "n", ">">>

\* A variant of the return that writes the span around no parts too.
WrapPartsAlways(parts) == SpanOpen \o join(parts, <<" ">>) \o SpanClose

\* The return of renderBadges: nothing for no parts, else the span around them.
WrapParts(parts) ==
  IF parts = <<>> THEN <<>> ELSE SpanOpen \o join(parts, <<" ">>) \o SpanClose

\* renderBadges(entry, badges)
renderBadges(entry, badges) == WrapParts(BadgeParts(entry, badges))

(***************************************************************************)
(* decorateEntryHtml.  The options object is a function from the names of  *)
(* the options given to their values: titleLink an array of field names,   *)
(* badges an array of badges, list "ol", "ul" or "div", listAttributes an  *)
(* array of <<name, value>> in insertion order, linkifyUrls a boolean.     *)
(***************************************************************************)

\* options.titleLink
TitleLinkOf(options) ==
  IF "titleLink" \in DOMAIN options THEN Obj(options["titleLink"]) ELSE Undefined

\* options.badges ?? []
BadgesOf(options) == IF "badges" \in DOMAIN options THEN options["badges"] ELSE <<>>

\* if (titleUrl && typeof title === "string" && title.trim()) html = linkTitle(...)
LinkedHtml(html, title, titleUrl) ==
  IF /\ ~IsFalsy(titleUrl)
     /\ title.kind = "string"
     /\ trim(title.chars) # <<>>
    THEN linkTitle(html, title.chars, titleUrl.chars)
  ELSE html

\* if (badgeHtml) html = `${html} ${badgeHtml}`
WithBadges(linked, badgeHtml) ==
  IF badgeHtml # <<>> THEN linked \o <<" ">> \o badgeHtml ELSE linked

\* decorateEntryHtml(entry, html, options)
decorateEntryHtml(entry, html, options) ==
  WithBadges(LinkedHtml(html, Get(entry.csl, "title"),
                        resolveTitleLink(entry, TitleLinkOf(options))),
             renderBadges(entry, BadgesOf(options)))

(***************************************************************************)
(* The formatting engine (citation-js with citeproc), as the repository    *)
(* calls it: one bibliography run over the records of the batch, in the    *)
(* order given (nosort), answered as an array of [id, html].  The engine   *)
(* wraps each entry in <div data-csl-entry-id="ID" class="csl-entry">; the  *)
(* body it writes depends on the style, of which the model knows four      *)
(* shapes:                                                                 *)
(*   "plain"     the escaped title and a full stop                         *)
(*   "italic"    the escaped title in <i>...</i>                           *)
(*   "url"       the escaped title, a space and the record's URL as text   *)
(*   "numbered"  the position of the record in the batch, then the title   *)
(***************************************************************************)

Shapes == {"plain", "italic", "url", "numbered"}

\* The engine's text escape: numeric character references for & < >.
EngineEscapeChar(c) ==
  CASE c = "&" -> <<"&", "#", "3", "8", ";">>
    [] c = "<" -> <<"&", "#", "6", "0", ";">>
    [] c = ">" -> <<"&", "#", "6", "2", ";">>
    [] OTHER -> <<c>>

EngineEscape(s) == Concat([i \in 1..Len(s) |-> EngineEscapeChar(s[i])])

EntryDivOpen(id) ==
  << "<", "d", "i", "v", " ", "d", "a", "t", "a", "-", "c", "s", "l", "-",
     "e", "n", "t", "r", "y", "-", "i", "d", "=", "\"" >>
  \o escapeAttr(id)
  \o << "\"", " ", "c", "l", "a", "s", "s", "=", "\"", "c", "s", "l", "-",
     "e", "n", "t", "r", "y", "\"", ">" >>

DivClose == <<"<", "/", "d", "i", "v", ">">>

\* The body the engine writes for the record at position i of the batch.
EngineBody(csl, i, shape) ==
  LET title == IF "title" \in DOMAIN csl THEN EngineEscape(csl["title"]) ELSE <<>>
      url == IF "URL" \in DOMAIN csl THEN EngineEscape(csl["URL"]) ELSE <<>>
  IN  CASE shape = "plain" -> title \o <<".">>
        [] shape = "italic" -> <<"<", "i", ">">> \o title \o <<"<", "/", "i", ">">>
        [] shape = "url" -> title \o <<" ">> \o url
        [] OTHER -> NatString(i) \o <<".", " ">> \o title

\* cite.format("bibliography", {format: "html", nosort: true, asEntryArray: true})
EngineFormat(cslList, shape) ==
  [i \in 1..Len(cslList) |->
     << String(Get(cslList[i], "id")),
        EntryDivOpen(String(Get(cslList[i], "id")))
        \o EngineBody(cslList[i], i, shape) \o DivClose \o <<"\n">> >>]

\* renderCslEntries(entries): the engine's answer for entries.map(e => e.csl),
\* its id and html made strings.
renderCslEntries(entries, shape) ==
  EngineFormat([i \in 1..Len(entries) |-> entries[i].csl], shape)

\* One call of the engine, as renderCslEntries makes it: new Cite on the
\* records of the entries, in their order, and cite.format with nosort.
EngineCall(entries) ==
  [data |-> [i \in 1..Len(entries) |-> entries[i].csl], nosort |-> TRUE]

\* The calls of the engine that formatEntry(entry) makes.
formatEntryCalls(entry) == << EngineCall(<<entry>>) >>

\* A variant that renders the entries one by one.
formatHtmlCallsPerEntry(entries) ==
  [i \in 1..Len(entries) |-> EngineCall(<<entries[i]>>)]

\* The calls of the engine that formatHtml(entries) makes: none for no entry,
\* else the one of renderCslEntries(entries).
formatHtmlCalls(entries) ==
  IF entries = <<>> THEN <<>> ELSE << EngineCall(entries) >>

(***************************************************************************)
(* unwrapCslEntry.                                                         *)
(***************************************************************************)

ClassWord == <<"c", "l", "a", "s", "s">>
CslEntryWord == <<"c", "s", "l", "-", "e", "n", "t", "r", "y">>

\* \b between positions i - 1 and i of s.
BoundaryAt(s, i) ==
  LET before == i > 1 /\ i - 1 <= Len(s) /\ IsWord(s[i - 1])
      after == i >= 1 /\ i <= Len(s) /\ IsWord(s[i])
  IN  before # after

\* Whether /\bclass\s*=\s*["'][^"']*\bcsl-entry\b/ matches in the lowercased
\* attributes with "class" at position p and "csl-entry" at position q.
ClassMatchAt(lower, p, q) ==
  LET eq == SkipSpace(lower, p + Len(ClassWord))
      quote == SkipSpace(lower, eq + 1)
  IN  /\ BoundaryAt(lower, p)
      /\ eq <= Len(lower) /\ lower[eq] = "="
      /\ quote <= Len(lower) /\ lower[quote] \in {"\"", "'"}
      /\ q > quote
      /\ \A k \in (quote + 1)..(q - 1) : lower[k] \notin {"\"", "'"}
      /\ BoundaryAt(lower, q)
      /\ BoundaryAt(lower, q + Len(CslEntryWord))

\* /\bclass\s*=\s*["'][^"']*\bcsl-entry\b/i.test(attrs)
HasCslEntryClass(attrs) ==
  LET lower == toLowerCase(attrs)
  IN  \E p \in {i \in 1..Len(lower) : OccursAt(lower, i, ClassWord)} :
        \E q \in {i \in 1..Len(lower) : OccursAt(lower, i, CslEntryWord)} :
          ClassMatchAt(lower, p, q)

\* unwrapCslEntry(entryHtml): the trimmed content of the outer
\* <div ... class="csl-entry">, or null.
unwrapCslEntry(entryHtml) ==
  LET trimmed == trim(entryHtml)
      gt == IndexFrom(trimmed, 5, ">")
      close == Len(trimmed) - Len(DivClose) + 1
  IN  IF /\ startsWith(trimmed, <<"<", "d", "i", "v">>)
         /\ BoundaryAt(trimmed, 5)
         /\ gt # 0
         /\ endsWith(trimmed, DivClose)
         /\ close > gt
         /\ HasCslEntryClass(SubSeq(trimmed, 5, gt - 1))
        THEN Str(trim(SubSeq(trimmed, gt + 1, close - 1)))
      ELSE Null

\* inner ?? raw.trim()
InnerOr(inner, raw) == IF IsNullish(inner) THEN trim(raw) ELSE inner.chars

\* unwrapCslEntry(raw) ?? raw.trim()
InnerHtml(raw) == InnerOr(unwrapCslEntry(raw), raw)

(***************************************************************************)
(* formatEntry and formatHtml.                                             *)
(***************************************************************************)

\* formatEntry(entry, options)
formatEntry(entry, options, shape) ==
  LET rendered == renderCslEntries(<<entry>>, shape)
      raw == IF Len(rendered) >= 1 THEN rendered[1][2] ELSE <<>>
  IN  decorateEntryHtml(entry, InnerHtml(raw), options)

Boolean(b) == [kind |-> "boolean", val |-> b]

\* renderAttributes(attrs); attrs is an array of <<name, value>>.
RECURSIVE ShownAttributes(_)
ShownAttributes(attrs) ==
  IF attrs = <<>> THEN <<>>
  ELSE IF Head(attrs)[2] = Boolean(FALSE) THEN ShownAttributes(Tail(attrs))
  ELSE <<Head(attrs)>> \o ShownAttributes(Tail(attrs))

renderAttributes(attrs) ==
  LET shown == ShownAttributes(attrs)
      part(kv) == IF kv[2] = Boolean(TRUE) THEN kv[1]
                  ELSE kv[1] \o <<"=", "\"">> \o escapeAttr(String(kv[2])) \o <<"\"">>
  IN  IF shown = <<>> THEN <<>>
      ELSE <<" ">> \o join([i \in 1..Len(shown) |-> part(shown[i])], <<" ">>)

\* new Map(rendered).get(id): the html of the last pair whose id is `id`.
RenderedGet(rendered, id) ==
  LET at == GreatestIn({j \in 1..Len(rendered) : rendered[j][1] = id}, 1,
                       Len(rendered))
  IN  IF at = 0 THEN Undefined ELSE Str(rendered[at][2])

ItemOpen(itemTag, key) ==
  <<"<">> \o itemTag
  \o << " ", "d", "a", "t", "a", "-", "c", "s", "l", "-", "e", "n", "t", "r",
     "y", "-", "i", "d", "=", "\"" >>
  \o escapeAttr(key)
  \o << "\"", " ", "c", "l", "a", "s", "s", "=", "\"", "c", "s", "l", "-",
     "e", "n", "t", "r", "y", "\"", ">" >>

BodyClass == << " ", "c", "l", "a", "s", "s", "=", "\"", "c", "s", "l", "-", "b", "i",
     "b", "-", "b", "o", "d", "y", "\"" >>

\* options.list ?? "ol"
ListTagOf(options) == IF "list" \in DOMAIN options THEN options["list"] ELSE <<"o", "l">>

\* options.listAttributes ?? (tag === "ol" ? { reversed: true } : {})
ListAttributesOf(options) ==
  IF "listAttributes" \in DOMAIN options THEN options["listAttributes"]
  ELSE IF ListTagOf(options) = <<"o", "l">>
    THEN << << <<"r", "e", "v", "e", "r", "s", "e", "d">>, Boolean(TRUE) >> >>
  ELSE <<>>

\* The callback of entries.map in formatHtml: the item of the entry at `index`.
FormatItem(entries, index, rendered, options) ==
  LET entry == entries[index]
      id == String(Coalesce(Get(entry.csl, "id"), Str(entry.key)))
      raw == Coalesce(RenderedGet(rendered, id),
               Coalesce(RenderedGet(rendered, entry.key),
                 Coalesce(IF index <= Len(rendered) THEN Str(rendered[index][2])
                          ELSE Undefined,
                          Str(<<>>))))
      itemTag == IF ListTagOf(options) = <<"d", "i", "v">> THEN <<"d", "i", "v">>
                 ELSE <<"l", "i">>
  IN  ItemOpen(itemTag, entry.key)
      \o decorateEntryHtml(entry, InnerHtml(raw.chars), options)
      \o <<"<", "/">> \o itemTag \o <<">">>

\* const html = `<${tag}${attrs} class="csl-bib-body">\n${items.join("\n")}\n</${tag}>`
ListHtml(tag, items, options) ==
  <<"<">> \o tag \o renderAttributes(ListAttributesOf(options)) \o BodyClass
  \o <<">", "\n">> \o join(items, <<"\n">>) \o <<"\n", "<", "/">> \o tag \o <<">">>

\* return options.linkifyUrls === false ? html : linkifyBareUrls(html)
LinkifiedUnlessOff(html, options) ==
  IF "linkifyUrls" \in DOMAIN options /\ options["linkifyUrls"] = FALSE THEN html
  ELSE linkifyBareUrls(html)

\* The items of formatHtml: entries.map over the engine's answer `rendered`.
FormatItems(entries, rendered, options) ==
  [i \in 1..Len(entries) |-> FormatItem(entries, i, rendered, options)]

\* A variant of formatHtml without the early return for no entries.
formatHtmlAlwaysWrapped(entries, options, shape) ==
  LinkifiedUnlessOff(
    ListHtml(ListTagOf(options),
             FormatItems(entries, renderCslEntries(entries, shape), options),
             options),
    options)

\* formatHtml(entries, options)
formatHtml(entries, options, shape) ==
  IF entries = <<>> THEN <<>>
  ELSE LinkifiedUnlessOff(
         ListHtml(ListTagOf(options),
                  FormatItems(entries, renderCslEntries(entries, shape), options),
                  options),
         options)

(***************************************************************************)
(* registerStyle and hashString.  The registry of the engine's templates   *)
(* (Cite.plugins.config.get("@csl").templates) is global to the process: a *)
(* function from the registered names to their style texts.  The file      *)
(* system is a function from the paths of the files to their contents.     *)
(***************************************************************************)

\* a ^ b on non-negative integers.
RECURSIVE Xor(_, _)
Xor(a, b) ==
  IF a = 0 THEN b
  ELSE IF b = 0 THEN a
  ELSE 2 * Xor(a \div 2, b \div 2) + (((a % 2) + (b % 2)) % 2)

Two16 == 65536

\* The low 16 bits of the FNV prime 0x01000193, and its bits 16 to 31.
FnvPrimeLow == 403
FnvPrimeHigh == 256

\* One turn of the loop of hashString on h = hi * 2^16 + lo:
\* h ^= input.charCodeAt(i); h = Math.imul(h, 0x01000193), kept as an
\* unsigned 32-bit number in two halves of 16 bits.
HashStep(h, code) ==
  LET lo == Xor(h.lo, code)
      low == lo * FnvPrimeLow
  IN  [lo |-> low % Two16,
       hi |-> ((h.hi * FnvPrimeLow) + (lo * FnvPrimeHigh) + (low \div Two16)) % Two16]

\* 0x811c9dc5
FnvOffsetHigh == 33052
FnvOffsetLow == 40389

RECURSIVE HashFrom(_, _, _)
HashFrom(input, i, h) ==
  IF i > Len(input) THEN h
  ELSE LET next == HashStep(h, Code(input[i]))
       IN  \* h is a number of 32 bits after every turn
           IF next.hi < Two16 /\ next.lo < Two16 THEN HashFrom(input, i + 1, next)
           ELSE next

HexDigit ==
  << "0", "1", "2", "3", "4", "5", "6", "7", "8", "9", "a", "b", "c", "d",
     "e", "f" >>

\* The four hexadecimal digits of n < 2^16.
Hex4(n) ==
  << HexDigit[(n \div 4096) + 1], HexDigit[((n \div 256) % 16) + 1],
     HexDigit[((n \div 16) % 16) + 1], HexDigit[(n % 16) + 1] >>

\* (h >>> 0).toString(16): no leading zero.
HexString(h) ==
  LET digits == Hex4(h.hi) \o Hex4(h.lo)
      at == LeastIn({j \in 1..8 : digits[j] # "0"}, 1, 8)
  IN  IF at = 0 THEN <<"0">> ELSE From(digits, at)

\* hashString(input)
hashString(input) == HexString(HashFrom(input, 1, [hi |-> FnvOffsetHigh, lo |-> FnvOffsetLow]))

\* looksLikeXml(input): /^\s*</.test(input)
looksLikeXml(input) ==
  LET at == SkipSpace(input, 1) IN at <= Len(input) /\ input[at] = "<"

\* readFileIfExists(input): the content of the file at that path, or null.
readFileIfExists(files, input) ==
  IF input \in DOMAIN files THEN Str(files[input]) ELSE Null

\* templateExists(templates, name)
templateExists(templates, name) == name \in DOMAIN templates

Apa == <<"a", "p", "a">>
CustomPrefix == <<"c", "u", "s", "t", "o", "m", "-">>

\* registerStyle(cslStyle): [threw, name, templates], the registry as the call
\* leaves it.  cslStyle is Undefined or a string value.
registerStyle(templates, files, cslStyle) ==
  LET style == cslStyle.chars
      file == readFileIfExists(files, style)
      xml == IF ~IsNullish(file) THEN file
             ELSE IF looksLikeXml(style) THEN cslStyle
             ELSE Null
      name == CustomPrefix \o hashString(xml.chars)
  IN  IF IsFalsy(cslStyle) THEN [threw |-> FALSE, name |-> Apa, templates |-> templates]
      ELSE IF templateExists(templates, style)
        THEN [threw |-> FALSE, name |-> style, templates |-> templates]
      ELSE IF IsFalsy(xml) THEN [threw |-> TRUE, name |-> <<>>, templates |-> templates]
      ELSE [threw |-> FALSE, name |-> name,
            templates |-> IF templateExists(templates, name) THEN templates
                          ELSE [n \in DOMAIN templates \cup {name} |->
                                  IF n = name THEN xml.chars ELSE templates[n]]]

(***************************************************************************)
(* Bounds.                                                                 *)
(***************************************************************************)

\* The number of pieces an input of linkifyBareUrls is typed from.
MaxPieces == 4

\* The number of raw records, and of normalized records, in options.data.
MaxRecords == 2

\* The number of arrays the caller of a Bibliography holds besides
\* bib.entries.
MaxArrays == 2

\* The length of the array handed to sort in the sort run.
MaxSorted == 3

\* The number of pieces a candidate of sanitizeUrl is typed from.
MaxSanPieces == 3

\* The number of pieces the html of the scanner run is typed from.
MaxScanPieces == 4

\* The number of pieces an input of the URL run is typed from.
MaxUrlPieces == 4

\* The number of descriptors in the badge list of the badge run.
MaxBadges == 3

\* The number of entries in the list of the list run.
MaxListed == 3

\* The number of Bibliographies constructed in the style run.
MaxStyled == 3

(***************************************************************************)
(* State.                                                                  *)
(***************************************************************************)

VARIABLES
  lkPc,      \* linkify run: "input", "once" (linkified), "twice" (linkified again)
  lkHtml,    \* linkify run: the input string
  lkCount,   \* linkify run: the number of pieces typed into lkHtml
  lkOut,     \* linkify run: linkifyBareUrls(lkHtml)
  lkOut2,    \* linkify run: linkifyBareUrls(lkOut)
  bibPc,     \* "new" before new Bibliography(options), then "ready" or "threw"
  options,   \* BibliographyOptions: what the engine parses out of options.data
             \* (rawEntries, cslData), customFields (or Undefined), cslStyle
  templates, \* the engine's registry of style templates, global to the process
  templateName,       \* this.templateName
  customFieldNames,   \* this.customFieldNames
  entries,   \* this.entries
  arrays,    \* the arrays that filter and sort returned to the caller
  call,      \* the last call on the Bibliography: its arguments and its result
  srtPc,     \* sort run: the orders already asked for
  srtEntries,\* sort run: the array handed to sort
  srtBy,     \* sort run: the options object without its order
  srtAsc,    \* sort run: sort(srtEntries, {by, order: "asc"})
  srtDesc,   \* sort run: sort(srtEntries, {by, order: "desc"})
  srtDefault,\* sort run: sort(srtEntries, {by})
  fmtPc,     \* format run: "input", then the method called
  fmtEntries,\* format run: the entries formatted
  fmtOptions,\* format run: the FormatOptions of the call
  fmtOut,    \* format run: what the call returned
  fmtEngine, \* format run: the calls the method made to the formatting engine
  sanPc,     \* sanitize run: "input", then "done"
  sanUrl,    \* sanitize run: the candidate
  sanCount,  \* sanitize run: the number of pieces typed into sanUrl
  sanOut,    \* sanitize run: sanitizeUrl(sanUrl)
  ttPc,      \* scanner run: "input", then the scanner called
  ttHtml,    \* scanner run: the html scanned
  ttCount,   \* scanner run: the number of pieces typed into ttHtml
  ttTitle,   \* scanner run: the title handed to linkTitle
  ttOut,     \* scanner run: what the scanner returned
  ttFlags,   \* scanner run: the flags of the scanner at each token of its loop
  bdPc,      \* badge run: "input", then the method called
  bdEntry,   \* badge run: the entry
  bdBadges,  \* badge run: the badge descriptors
  bdOut,     \* badge run: what the call returned
  stPc,      \* style run: "run" while Bibliographies are constructed
  stTemplates, \* style run: the engine's registry of style templates
  stLog      \* style run: per construction, the selector and what came of it

lkVars == <<lkPc, lkHtml, lkCount, lkOut, lkOut2>>

bibVars ==
  <<bibPc, options, templates, templateName, customFieldNames, entries, arrays, call>>

srtVars == <<srtPc, srtEntries, srtBy, srtAsc, srtDesc, srtDefault>>

fmtVars == <<fmtPc, fmtEntries, fmtOptions, fmtOut, fmtEngine>>

sanVars == <<sanPc, sanUrl, sanCount, sanOut>>

ttVars == <<ttPc, ttHtml, ttCount, ttTitle, ttOut, ttFlags>>

stVars == <<stPc, stTemplates, stLog>>

bdVars == <<bdPc, bdEntry, bdBadges, bdOut>>

vars == <<lkVars, bibVars, srtVars, fmtVars, sanVars, ttVars, bdVars, stVars>>

\* The runs that a specification does not exercise stay as they start.
LkIdle ==
  /\ lkPc = "off"
  /\ lkHtml = <<>>
  /\ lkCount = 0
  /\ lkOut = <<>>
  /\ lkOut2 = <<>>

BibIdle ==
  /\ bibPc = "off"
  /\ options = <<>>
  /\ templates = <<>>
  /\ templateName = <<>>
  /\ customFieldNames = <<>>
  /\ entries = <<>>
  /\ arrays = <<>>
  /\ call = <<>>

SrtIdle ==
  /\ srtPc = {"off"}
  /\ srtEntries = <<>>
  /\ srtBy = <<>>
  /\ srtAsc = <<>>
  /\ srtDesc = <<>>
  /\ srtDefault = <<>>

FmtIdle ==
  /\ fmtPc = "off"
  /\ fmtEntries = <<>>
  /\ fmtOptions = <<>>
  /\ fmtOut = <<>>
  /\ fmtEngine = <<>>

SanIdle ==
  /\ sanPc = "off"
  /\ sanUrl = <<>>
  /\ sanCount = 0
  /\ sanOut = <<>>

TtIdle ==
  /\ ttPc = "off"
  /\ ttHtml = <<>>
  /\ ttCount = 0
  /\ ttTitle = <<>>
  /\ ttOut = <<>>
  /\ ttFlags = <<>>

BdIdle ==
  /\ bdPc = "off"
  /\ bdEntry = <<>>
  /\ bdBadges = <<>>
  /\ bdOut = <<>>

StIdle ==
  /\ stPc = "off"
  /\ stTemplates = <<>>
  /\ stLog = <<>>

(***************************************************************************)
(* A run of linkifyBareUrls on a typed input, and again on its own output. *)
(***************************************************************************)

\* What the inputs are typed from: characters the scanner tells apart, URL
\* schemes, whole tags of the three element kinds, and the start and the end
\* of a tag with a ">" in an attribute value.
Pieces ==
  { <<"<">>, <<">">>, <<"/">>, <<"a">>, <<"x">>, <<" ">>, <<".">>, <<"&">>,
    Http, Https,
    <<"<", "i", " ", "t", "=", "\"", ">">>, <<"\"", ">">>,
    <<"<", "a", ">">>, <<"<", "/", "a", ">">>,
    <<"<", "S", "c", "r", "i", "p", "t", ">">>,
    <<"<", "/", "s", "c", "r", "i", "p", "t", ">">>,
    <<"<", "s", "t", "y", "l", "e", ">">>,
    <<"<", "/", "s", "t", "y", "l", "e", ">">> }

LkInit ==
  /\ lkPc = "input"
  /\ lkHtml = <<>>
  /\ lkCount = 0
  /\ lkOut = <<>>
  /\ lkOut2 = <<>>
  /\ BibIdle /\ SrtIdle /\ FmtIdle /\ SanIdle /\ TtIdle /\ BdIdle /\ StIdle

\* The caller extends the input by one piece.
LkType ==
  /\ lkPc = "input"
  /\ lkCount < MaxPieces
  /\ \E p \in Pieces : lkHtml' = lkHtml \o p
  /\ lkCount' = lkCount + 1
  /\ UNCHANGED <<lkPc, lkOut, lkOut2, bibVars, srtVars, fmtVars, sanVars, ttVars, bdVars, stVars>>

\* linkifyBareUrls(html)
LkLinkify ==
  /\ lkPc = "input"
  /\ lkOut' = linkifyBareUrls(lkHtml)
  /\ lkPc' = "once"
  /\ UNCHANGED <<lkHtml, lkCount, lkOut2, bibVars, srtVars, fmtVars, sanVars, ttVars, bdVars, stVars>>

\* linkifyBareUrls on the output of the first call.
LkAgain ==
  /\ lkPc = "once"
  /\ lkOut2' = linkifyBareUrls(lkOut)
  /\ lkPc' = "twice"
  /\ UNCHANGED <<lkHtml, lkCount, lkOut, bibVars, srtVars, fmtVars, sanVars, ttVars, bdVars, stVars>>

LkNext == LkType \/ LkLinkify \/ LkAgain

SpecLinkify == LkInit /\ [][LkNext]_vars

(***************************************************************************)
(* A run of linkifyBareUrls on text with URLs and punctuation.             *)
(***************************************************************************)

\* What the inputs of the URL run are typed from: the two schemes, a letter,
\* an ampersand, punctuation inside and outside the class of urlRegex, a
\* blank, and the tags of an anchor.
UrlPieces ==
  { Http, Https, <<"x">>, <<"&">>, <<".">>, <<")">>, <<",">>, <<"\"">>, <<" ">>,
    <<"<", "a", ">">>, <<"<", "/", "a", ">">> }

\* The caller extends the input by one piece.
LkTypeUrl ==
  /\ lkPc = "input"
  /\ lkCount < MaxUrlPieces
  /\ \E p \in UrlPieces : lkHtml' = lkHtml \o p
  /\ lkCount' = lkCount + 1
  /\ UNCHANGED <<lkPc, lkOut, lkOut2, bibVars, srtVars, fmtVars, sanVars, ttVars, bdVars, stVars>>

NextUrls == LkTypeUrl \/ LkLinkify

SpecUrls == LkInit /\ [][NextUrls]_vars

(***************************************************************************)
(* Inputs of the runs.                                                     *)
(***************************************************************************)

SeqsUpTo(S, n) == UNION {[1..k -> S] : k \in 0..n}

KeyA == <<"a">>
KeyB == <<"b">>

\* A published record with a DOI, and an unpublished one.
Published == ("status" :> <<"p">>) @@ ("doi" :> <<"1", "0", ".", "1", "/", "x">>)
Preprint == ("status" :> <<"q">>)

\* The raw records that the engine's first pass (plugins.input.chainLink)
\* yields: two labels, and two records of one label.
RawRecords ==
  { [label |-> KeyA, properties |-> Published],
    [label |-> KeyA, properties |-> Preprint],
    [label |-> KeyB, properties |-> Preprint] }

TitleT == ("title" :> <<"T">>)

Issued2023 == ("issued" :> << <<2023>> >>)

\* The normalized records that the engine's second pass (new Cite) yields:
\* with an id only, with a citation-key that differs from the id, with an
\* empty citation-key, and dated.
CslRecords ==
  { ("id" :> KeyA) @@ TitleT,
    ("id" :> KeyA) @@ ("citation-key" :> KeyB) @@ TitleT,
    ("id" :> KeyB) @@ ("citation-key" :> <<>>) @@ TitleT,
    ("id" :> KeyB) @@ Issued2023 @@ TitleT }

\* options.customFields: absent, names of which the raw records have some, and
\* names of which Object.prototype has one.
CustomFieldLists ==
  { Undefined, Obj(<<"status", "doi", "note">>), Obj(<<"note", "constructor">>) }

\* options.cslStyle: absent, a registered name, XML, and a name that is
\* neither a registered template nor a file nor XML.
StyleXml == <<" ", "<", "s", "t", "y", "l", "e", "/", ">">>
UnknownStyle == <<"z", "z">>

CslStyles == { Undefined, Str(Apa), Str(StyleXml), Str(UnknownStyle) }

\* The options of the construction run.
ConstructOptions ==
  [rawEntries : SeqsUpTo(RawRecords, MaxRecords),
   cslData : SeqsUpTo(CslRecords, MaxRecords),
   customFields : CustomFieldLists,
   cslStyle : CslStyles]

\* The options of the run of one Bibliography: one record per label, the two
\* declarations of custom fields, the default style.
BibOptions ==
  [rawEntries : SeqsUpTo({[label |-> KeyA, properties |-> Published],
                          [label |-> KeyB, properties |-> Preprint]}, MaxRecords),
   cslData : SeqsUpTo({("id" :> KeyA) @@ TitleT,
                       ("id" :> KeyB) @@ Issued2023 @@ TitleT}, MaxRecords),
   customFields : CustomFieldLists \ {Undefined},
   cslStyle : {Undefined}]

\* The templates that the engine ships.
BuiltinTemplates == [n \in {Apa} |-> <<"<", "s", "t", "y", "l", "e", "/", ">">>]

\* The files of the working directory: none.
Files == [p \in {} |-> <<>>]

\* The criteria of the filter calls: none, one, two that one record meets, and
\* two that no record meets together.
CriteriaSet ==
  { EmptyObj,
    ("status" :> <<"q">>),
    ("status" :> <<"p">>) @@ ("doi" :> <<"1", "0", ".", "1", "/", "x">>),
    ("status" :> <<"q">>) @@ ("doi" :> <<"1", "0", ".", "1", "/", "x">>) }

\* The second argument of the sort calls.
SortOptions == { EmptyObj, ("order" :> "asc"), ("by" :> "status") @@ ("order" :> "asc") }

DoiBadge ==
  [field |-> "doi", label |-> <<"D", "O", "I">>,
   url |-> <<"h", "t", "t", "p", "s", ":", "/", "/", "d", "/">> \o Placeholder,
   match |-> "none", className |-> Undefined]

\* The FormatOptions of the format calls of a Bibliography run.
BibFormatOptions ==
  { EmptyObj, ("badges" :> <<DoiBadge>>) @@ ("list" :> <<"d", "i", "v">>) }

\* What the engine writes depends on the style the Bibliography registered.
StyleShape(name) == IF name = Apa THEN "plain" ELSE "numbered"

(***************************************************************************)
(* A run of one Bibliography: construction, then calls in any order.       *)
(***************************************************************************)

BibInit ==
  /\ bibPc = "new"
  /\ options \in BibOptions
  /\ templates = BuiltinTemplates
  /\ templateName = <<>>
  /\ customFieldNames = <<>>
  /\ entries = <<>>
  /\ arrays = <<>>
  /\ call = [op |-> "none"]
  /\ LkIdle /\ SrtIdle /\ FmtIdle /\ SanIdle /\ TtIdle /\ BdIdle /\ StIdle

\* new Bibliography(options).  options.data is held as what the two passes of
\* the engine make of it.
Construct ==
  /\ bibPc = "new"
  /\ LET names == IF IsNullish(options.customFields) THEN <<>>
                  ELSE options.customFields.of
         style == registerStyle(templates, Files, options.cslStyle)
     IN  /\ customFieldNames' = names
         /\ IF style.threw
              THEN /\ bibPc' = "threw"
                   /\ UNCHANGED <<templates, templateName, entries>>
              ELSE /\ bibPc' = "ready"
                   /\ templates' = style.templates
                   /\ templateName' = style.name
                   /\ entries' = BuildEntries(options.rawEntries, options.cslData, names)
  /\ call' = [op |-> "new"]
  /\ UNCHANGED <<options, arrays, lkVars, srtVars, fmtVars, sanVars, ttVars, bdVars, stVars>>

\* The array behind a reference of the caller: 0 is bib.entries.
Deref(ref) == IF ref = 0 THEN entries ELSE arrays[ref]

\* bib.filter(criteria)
Filter(criteria) ==
  /\ bibPc = "ready"
  /\ Len(arrays) < MaxArrays
  /\ arrays' = Append(arrays, filter(entries, criteria))
  /\ call' = [op |-> "filter", criteria |-> criteria, ret |-> Len(arrays) + 1]
  /\ UNCHANGED <<bibPc, options, templates, templateName, customFieldNames, entries,
                 lkVars, srtVars, fmtVars, sanVars, ttVars, bdVars, stVars>>

\* bib.sort(array, opts)
Sort(ref, opts) ==
  /\ bibPc = "ready"
  /\ Len(arrays) < MaxArrays
  /\ LET after == SortArgument(Deref(ref), opts)
         held == IF ref = 0 THEN arrays ELSE [arrays EXCEPT ![ref] = after]
     IN  /\ entries' = IF ref = 0 THEN after ELSE entries
         /\ arrays' = Append(held, sort(Deref(ref), opts))
  /\ call' = [op |-> "sort", ref |-> ref, opts |-> opts, ret |-> Len(arrays) + 1]
  /\ UNCHANGED <<bibPc, options, templates, templateName, customFieldNames,
                 lkVars, srtVars, fmtVars, sanVars, ttVars, bdVars, stVars>>

\* bib.formatEntry(entry, formatOptions), on a member of bib.entries (the
\* members of the other arrays are members of bib.entries).
FormatEntry(index, formatOptions) ==
  /\ bibPc = "ready"
  /\ index \in 1..Len(entries)
  /\ call' = [op |-> "formatEntry", index |-> index,
              ret |-> formatEntry(entries[index], formatOptions,
                                  StyleShape(templateName))]
  /\ UNCHANGED <<bibPc, options, templates, templateName, customFieldNames, entries,
                 arrays, lkVars, srtVars, fmtVars, sanVars, ttVars, bdVars, stVars>>

\* bib.formatHtml(array, formatOptions)
FormatHtml(ref, formatOptions) ==
  /\ bibPc = "ready"
  /\ call' = [op |-> "formatHtml", ref |-> ref,
              ret |-> formatHtml(Deref(ref), formatOptions, StyleShape(templateName))]
  /\ UNCHANGED <<bibPc, options, templates, templateName, customFieldNames, entries,
                 arrays, lkVars, srtVars, fmtVars, sanVars, ttVars, bdVars, stVars>>

Next ==
  \/ Construct
  \/ \E criteria \in CriteriaSet : Filter(criteria)
  \/ \E ref \in 0..Len(arrays), opts \in SortOptions : Sort(ref, opts)
  \/ \E index \in 1..MaxRecords, formatOptions \in BibFormatOptions :
       FormatEntry(index, formatOptions)
  \/ \E ref \in 0..Len(arrays), formatOptions \in BibFormatOptions :
       FormatHtml(ref, formatOptions)

Spec == BibInit /\ [][Next]_vars

(***************************************************************************)
(* The construction run: new Bibliography(options) on any options.         *)
(***************************************************************************)

ConstructInit ==
  /\ bibPc = "new"
  /\ options \in ConstructOptions
  /\ templates = BuiltinTemplates
  /\ templateName = <<>>
  /\ customFieldNames = <<>>
  /\ entries = <<>>
  /\ arrays = <<>>
  /\ call = [op |-> "none"]
  /\ LkIdle /\ SrtIdle /\ FmtIdle /\ SanIdle /\ TtIdle /\ BdIdle /\ StIdle

NextConstruct == Construct

SpecConstruct == ConstructInit /\ [][NextConstruct]_vars

(***************************************************************************)
(* The sort run: sort on one array, in both orders and in the default one. *)
(***************************************************************************)

KeyLetters == <<"a", "b", "c", "d", "e", "f">>

\* The years of the records of the sort run: none, 0, and a year.
SortYears == { EmptyObj, ("issued" :> << <<0>> >>), Issued2023 }

\* The status fields of the raw records of the sort run: none, empty, and two
\* values.
SortStatuses ==
  { EmptyObj, ("status" :> <<>>), ("status" :> <<"p">>), ("status" :> <<"q">>) }

\* The entry that the constructor builds at position i from a record with the
\* year and the status; the keys of the positions differ.
SortEntry(i, year, status) ==
  EntryOf(("id" :> <<KeyLetters[i]>>) @@ year,
          RawMapOf(<< [label |-> <<KeyLetters[i]>>, properties |-> status] >>),
          <<"status">>)

SortArrays ==
  UNION { { [i \in 1..n |-> SortEntry(i, f[i][1], f[i][2])] :
              f \in [1..n -> SortYears \X SortStatuses] } : n \in 0..MaxSorted }

SrtInit ==
  /\ srtPc = {}
  /\ srtEntries \in SortArrays
  /\ srtBy \in { EmptyObj, ("by" :> "year"), ("by" :> "status") }
  /\ srtAsc = <<>>
  /\ srtDesc = <<>>
  /\ srtDefault = <<>>
  /\ LkIdle /\ BibIdle /\ FmtIdle /\ SanIdle /\ TtIdle /\ BdIdle /\ StIdle

\* sort(entries, {by, order: "asc"})
SortAsc ==
  /\ "asc" \notin srtPc
  /\ srtAsc' = sort(srtEntries, srtBy @@ ("order" :> "asc"))
  /\ srtEntries' = SortArgument(srtEntries, srtBy @@ ("order" :> "asc"))
  /\ srtPc' = srtPc \cup {"asc"}
  /\ UNCHANGED <<srtBy, srtDesc, srtDefault, lkVars, bibVars, fmtVars, sanVars, ttVars, bdVars, stVars>>

\* sort(entries, {by, order: "desc"})
SortDesc ==
  /\ "desc" \notin srtPc
  /\ srtDesc' = sort(srtEntries, srtBy @@ ("order" :> "desc"))
  /\ srtEntries' = SortArgument(srtEntries, srtBy @@ ("order" :> "desc"))
  /\ srtPc' = srtPc \cup {"desc"}
  /\ UNCHANGED <<srtBy, srtAsc, srtDefault, lkVars, bibVars, fmtVars, sanVars, ttVars, bdVars, stVars>>

\* sort(entries, {by}), and sort(entries) when by is absent too.
SortDefault ==
  /\ "default" \notin srtPc
  /\ srtDefault' = sort(srtEntries, srtBy)
  /\ srtEntries' = SortArgument(srtEntries, srtBy)
  /\ srtPc' = srtPc \cup {"default"}
  /\ UNCHANGED <<srtBy, srtAsc, srtDesc, lkVars, bibVars, fmtVars, sanVars, ttVars, bdVars, stVars>>

NextSort == SortAsc \/ SortDesc \/ SortDefault

SpecSort == SrtInit /\ [][NextSort]_vars

(***************************************************************************)
(* The format run: formatEntry and formatHtml on one entry whose fields    *)
(* hold link targets of every kind.                                        *)
(***************************************************************************)

JavascriptUrl ==
  <<"j", "a", "v", "a", "s", "c", "r", "i", "p", "t", ":", "a">>

\* The url fields of the raw records: none, a blank, a script URL, an https
\* URL in capitals, a mailto URL in blanks, and a word.
UrlFields ==
  { EmptyObj,
    ("url" :> <<" ">>),
    ("url" :> JavascriptUrl),
    ("url" :> <<"H", "t", "t", "p", "s", ":", "/", "/", "x">>),
    ("url" :> <<" ", "m", "a", "i", "l", "t", "o", ":", "m", " ">>),
    ("url" :> <<"x">>) }

\* The doi fields: none, a DOI with its prefix, and a script URL.
DoiFields ==
  { EmptyObj,
    ("doi" :> <<"d", "o", "i", ":", " ", "1", "0", ".", "1", "/", "x">>),
    ("doi" :> JavascriptUrl) }

\* The arxiv fields: none, and an identifier with a version.
ArxivFields == { EmptyObj, ("arxiv" :> <<"2", "5", ".", "1", "v", "2">>) }

\* The URL field of the normalized record: none, and an http URL.
CslUrls == { EmptyObj, ("URL" :> <<"h", "t", "t", "p", ":", "/", "/", "u">>) }

\* The entry the constructor builds from a raw record and a normalized record
\* of the same key, with the doi declared as custom field.
FormatEntries ==
  { EntryOf(("id" :> KeyA) @@ TitleT @@ cslUrl,
            RawMapOf(<< [label |-> KeyA, properties |-> url @@ doi @@ arxiv] >>),
            <<"doi">>) :
      url \in UrlFields, doi \in DoiFields, arxiv \in ArxivFields, cslUrl \in CslUrls }

\* Badges whose template is an https URL, the field value itself, and a script
\* URL around the digits of the field.
HttpsBadge == DoiBadge

ValueBadge ==
  [field |-> "url", label |-> <<"<", "U", ">">>, url |-> Placeholder,
   match |-> "none", className |-> Str(<<"c", "\"">>)]

ScriptBadge ==
  [field |-> "doi", label |-> <<"S">>, url |-> JavascriptUrl \o Placeholder,
   match |-> "digits", className |-> Undefined]

\* The FormatOptions of the format run.
FormatOptionsSet ==
  { titleLink @@ badges @@ linkify :
      titleLink \in { EmptyObj, ("titleLink" :> <<"doi">>),
                      ("titleLink" :> <<"arxiv", "url">>) },
      badges \in { EmptyObj, ("badges" :> <<HttpsBadge>>),
                   ("badges" :> <<ValueBadge, ScriptBadge>>) },
      linkify \in { EmptyObj, ("linkifyUrls" :> FALSE) } }

FmtInit ==
  /\ fmtPc = "input"
  /\ fmtEntries \in { <<e>> : e \in FormatEntries }
  /\ fmtOptions \in [of : FormatOptionsSet, shape : Shapes]
  /\ fmtOut = <<>>
  /\ fmtEngine = <<>>
  /\ LkIdle /\ BibIdle /\ SrtIdle /\ SanIdle /\ TtIdle /\ BdIdle /\ StIdle

\* bib.formatEntry(entry, options)
FmtFormatEntry ==
  /\ fmtPc = "input"
  /\ fmtOut' = formatEntry(fmtEntries[1], fmtOptions.of, fmtOptions.shape)
  /\ fmtEngine' = formatEntryCalls(fmtEntries[1])
  /\ fmtPc' = "formatEntry"
  /\ UNCHANGED <<fmtEntries, fmtOptions, lkVars, bibVars, srtVars, sanVars, ttVars, bdVars, stVars>>

\* bib.formatHtml(entries, options)
FmtFormatHtml ==
  /\ fmtPc = "input"
  /\ fmtOut' = formatHtml(fmtEntries, fmtOptions.of, fmtOptions.shape)
  /\ fmtEngine' = formatHtmlCalls(fmtEntries)
  /\ fmtPc' = "formatHtml"
  /\ UNCHANGED <<fmtEntries, fmtOptions, lkVars, bibVars, srtVars, sanVars, ttVars, bdVars, stVars>>

\* this.resolveTitleLink(entry, options.titleLink), as decorateEntryHtml
\* calls it.
FmtResolveTitleLink ==
  /\ fmtPc = "input"
  /\ fmtOut' = resolveTitleLink(fmtEntries[1], TitleLinkOf(fmtOptions.of))
  /\ fmtPc' = "resolveTitleLink"
  /\ UNCHANGED <<fmtEntries, fmtOptions, fmtEngine, lkVars, bibVars, srtVars, sanVars,
                 ttVars, bdVars, stVars>>

NextFormat == FmtFormatEntry \/ FmtFormatHtml \/ FmtResolveTitleLink

SpecFormat == FmtInit /\ [][NextFormat]_vars

(***************************************************************************)
(* The list run: formatHtml on a list of entries that the caller builds    *)
(* (bib.entries, or a filtered, sorted or hand-made list of entries).      *)
(***************************************************************************)

TitleU == ("title" :> <<"U">>)

\* The entries of the list run: two records of different ids, a record whose
\* id is the one of the first under another citation-key, and a record
\* without a title.
ListEntries ==
  { EntryOf(csl, RawMapOf(<<>>), <<>>) :
      csl \in { ("id" :> KeyA) @@ TitleT,
                ("id" :> KeyB) @@ TitleU,
                ("id" :> KeyA) @@ ("citation-key" :> <<"k">>) @@ TitleU,
                ("id" :> <<"c">>) } }

\* The FormatOptions of the list run.
ListOptionsSet ==
  { list @@ linkify :
      list \in { EmptyObj, ("list" :> <<"d", "i", "v">>) },
      linkify \in { EmptyObj, ("linkifyUrls" :> FALSE) } }

FmtListInit ==
  /\ fmtPc = "input"
  /\ fmtEntries = <<>>
  /\ fmtOptions \in [of : ListOptionsSet, shape : {"plain", "numbered"}]
  /\ fmtOut = <<>>
  /\ fmtEngine = <<>>
  /\ LkIdle /\ BibIdle /\ SrtIdle /\ SanIdle /\ TtIdle /\ BdIdle /\ StIdle

\* The caller adds an entry to the list.
FmtAddEntry ==
  /\ fmtPc = "input"
  /\ Len(fmtEntries) < MaxListed
  /\ \E entry \in ListEntries : fmtEntries' = Append(fmtEntries, entry)
  /\ UNCHANGED <<fmtPc, fmtOptions, fmtOut, fmtEngine, lkVars, bibVars, srtVars, sanVars,
                 ttVars, bdVars, stVars>>

NextList == FmtAddEntry \/ FmtFormatHtml

SpecList == FmtListInit /\ [][NextList]_vars

(***************************************************************************)
(* The sanitize run: sanitizeUrl on a typed candidate.                     *)
(***************************************************************************)

\* What the candidates are typed from: blanks, the accepted schemes in both
\* cases of the letters, a scheme that runs script, and the characters that
\* make a scheme incomplete.
SanPieces ==
  { <<" ">>, <<"\t">>, <<"x">>, <<":">>, <<"/">>,
    Http, Https, Mailto,
    <<"H", "T", "T", "P", "S", ":", "/", "/">>,
    <<"M", "a", "i", "l", "T", "o", ":">>,
    <<"h", "t", "t", "p", ":">>,
    <<"j", "a", "v", "a", "s", "c", "r", "i", "p", "t", ":">>,
    <<"a", "l", "e", "r", "t", "(", "1", ")">>,
    <<"a", "@", "b", ".", "c", "o", "m">> }

SanInit ==
  /\ sanPc = "input"
  /\ sanUrl = <<>>
  /\ sanCount = 0
  /\ sanOut = <<>>
  /\ LkIdle /\ BibIdle /\ SrtIdle /\ FmtIdle /\ TtIdle /\ BdIdle /\ StIdle

\* The caller extends the candidate by one piece.
SanType ==
  /\ sanPc = "input"
  /\ sanCount < MaxSanPieces
  /\ \E p \in SanPieces : sanUrl' = sanUrl \o p
  /\ sanCount' = sanCount + 1
  /\ UNCHANGED <<sanPc, sanOut, lkVars, bibVars, srtVars, fmtVars, ttVars, bdVars, stVars>>

\* sanitizeUrl(url)
SanSanitize ==
  /\ sanPc = "input"
  /\ sanOut' = sanitizeUrl(sanUrl)
  /\ sanPc' = "done"
  /\ UNCHANGED <<sanUrl, sanCount, lkVars, bibVars, srtVars, fmtVars, ttVars, bdVars, stVars>>

NextSanitize == SanType \/ SanSanitize

SpecSanitize == SanInit /\ [][NextSanitize]_vars

(***************************************************************************)
(* The scanner run: linkTitle or linkifyBareUrls on a typed html that      *)
(* holds anchors, scripts, styles and inline markup.                       *)
(***************************************************************************)

HttpX == Http \o <<"x">>

\* What the html is typed from: the letters of the titles, a blank, an
\* escaped ampersand, a bare URL, inline markup, and the tags of the three
\* element kinds the scanners follow.
ScanPieces ==
  { <<"T">>, <<"U">>, <<" ">>, <<"&", "a", "m", "p", ";">>, HttpX,
    <<"<", "i", ">">>, <<"<", "/", "i", ">">>,
    <<"<", "a", ">">>, <<"<", "/", "a", ">">>,
    <<"<", "s", "c", "r", "i", "p", "t", ">">>,
    <<"<", "/", "s", "c", "r", "i", "p", "t", ">">>,
    <<"<", "S", "T", "Y", "L", "E", ">">>,
    <<"<", "/", "s", "t", "y", "l", "e", ">">> }

\* The titles handed to linkTitle: none, one letter, two letters, and a
\* character that the html holds escaped.
ScanTitles == { <<>>, <<"T">>, <<"T", "U">>, <<"&">> }

\* The URL handed to linkTitle.
ScanUrl == <<"h", "t", "t", "p", "s", ":", "/", "/", "u", "?", "a", "&", "b">>

ScanInit ==
  /\ ttPc = "input"
  /\ ttHtml = <<>>
  /\ ttCount = 0
  /\ ttTitle = <<>>
  /\ ttOut = <<>>
  /\ ttFlags = <<>>
  /\ LkIdle /\ BibIdle /\ SrtIdle /\ FmtIdle /\ SanIdle /\ BdIdle /\ StIdle

\* The caller extends the html by one piece.
ScanType ==
  /\ ttPc = "input"
  /\ ttCount < MaxScanPieces
  /\ \E p \in ScanPieces : ttHtml' = ttHtml \o p
  /\ ttCount' = ttCount + 1
  /\ UNCHANGED <<ttPc, ttTitle, ttOut, ttFlags, lkVars, bibVars, srtVars, fmtVars, sanVars,
                 bdVars, stVars>>

\* linkTitle(html, title, url)
ScanLinkTitle ==
  /\ ttPc = "input"
  /\ \E title \in ScanTitles :
       /\ ttTitle' = title
       /\ ttOut' = linkTitle(ttHtml, title, ScanUrl)
       /\ ttFlags' = IF buildHtmlTextPattern(title) = <<>> THEN <<>>
                     ELSE FlagTrace(splitTags(ttHtml), 1, NoFlags)
  /\ ttPc' = "linkTitle"
  /\ UNCHANGED <<ttHtml, ttCount, lkVars, bibVars, srtVars, fmtVars, sanVars, bdVars, stVars>>

\* linkifyBareUrls(html)
ScanLinkify ==
  /\ ttPc = "input"
  /\ ttOut' = linkifyBareUrls(ttHtml)
  /\ ttFlags' = FlagTrace(splitTags(ttHtml), 1, NoFlags)
  /\ ttPc' = "linkify"
  /\ UNCHANGED <<ttHtml, ttCount, ttTitle, lkVars, bibVars, srtVars, fmtVars, sanVars,
                 bdVars, stVars>>

NextScan == ScanType \/ ScanLinkTitle \/ ScanLinkify

SpecScan == ScanInit /\ [][NextScan]_vars

(***************************************************************************)
(* The badge run: renderBadges and formatEntry on an entry and a list of   *)
(* badge descriptors that the caller builds.                               *)
(***************************************************************************)

\* The zbl fields of the raw record: none, a number of the form the pattern
\* of the zbl badge asks for, and a word.
ZblFields ==
  { EmptyObj,
    ("zbl" :> <<"7", "6", "5", "4", ".", "1", "2", "3", "4", "5">>),
    ("zbl" :> <<"n", "o", "t", "-", "a", "-", "n", "u", "m", "b", "e", "r">>) }

\* The st fields: none, a value with dollar signs, an identifier with a
\* version, a script URL and an https URL.
StFields ==
  { EmptyObj,
    ("st" :> <<"a", "$", "$", "b">>),
    ("st" :> <<"x", "9", "v", "2">>),
    ("st" :> <<"j", "a", "v", "a", "s", "c", "r", "i", "p", "t", ":", "7">>),
    ("st" :> <<"h", "t", "t", "p", "s", ":", "/", "/", "x">>) }

\* The entries of the badge run: a title, a url for the title link, and the
\* two fields, st declared as custom field.
BadgeEntries ==
  { EntryOf(("id" :> KeyA) @@ TitleT,
            RawMapOf(<< [label |-> KeyA,
                         properties |-> ("url" :> <<"h", "t", "t", "p", "s", ":", "/", "/", "t">>)
                                        @@ zbl @@ st] >>),
            <<"st">>) :
      zbl \in ZblFields, st \in StFields }

BadgeFor(field, label, url, match, className) ==
  [field |-> field, label |-> label, url |-> url, match |-> match,
   className |-> className]

\* The descriptors of the badge run: a pattern with a capture group around
\* the whole value, a pattern with a group around a part, a pattern without
\* a group, no pattern with the placeholder twice in the template, the value
\* as the whole URL, a field no record has, and a field named like a member
\* of Object.prototype.
BadgeSet ==
  { BadgeFor("zbl", <<"Z">>, <<"h", "t", "t", "p", "s", ":", "/", "/", "z", "/">> \o Placeholder,
             "zbl", Undefined),
    BadgeFor("st", <<"A">>, <<"h", "t", "t", "p", "s", ":", "/", "/", "a", "/">> \o Placeholder,
             "arxiv", Undefined),
    BadgeFor("st", <<"D">>, <<"h", "t", "t", "p", "s", ":", "/", "/", "d", "/">> \o Placeholder,
             "digits", Undefined),
    BadgeFor("st", <<"S", "<">>,
             <<"h", "t", "t", "p", "s", ":", "/", "/", "s", "/">> \o Placeholder
               \o <<"?">> \o Placeholder,
             "none", Str(<<"c">>)),
    BadgeFor("st", <<"V">>, Placeholder, "none", Undefined),
    BadgeFor("note", <<"N">>, <<"h", "t", "t", "p", "s", ":", "/", "/", "n", "/">> \o Placeholder,
             "none", Undefined),
    BadgeFor("constructor", <<"C">>,
             <<"h", "t", "t", "p", "s", ":", "/", "/", "c", "/">> \o Placeholder,
             "none", Undefined) }

BdInit ==
  /\ bdPc = "input"
  /\ bdEntry \in BadgeEntries
  /\ bdBadges = <<>>
  /\ bdOut = <<>>
  /\ LkIdle /\ BibIdle /\ SrtIdle /\ FmtIdle /\ SanIdle /\ TtIdle /\ StIdle

\* The caller adds a descriptor to the list `badges` of the options.
BdAddBadge ==
  /\ bdPc = "input"
  /\ Len(bdBadges) < MaxBadges
  /\ \E badge \in BadgeSet : bdBadges' = Append(bdBadges, badge)
  /\ UNCHANGED <<bdPc, bdEntry, bdOut, lkVars, bibVars, srtVars, fmtVars, sanVars, ttVars, stVars>>

\* this.renderBadges(entry, badges), as decorateEntryHtml calls it.
BdRenderBadges ==
  /\ bdPc = "input"
  /\ bdOut' = renderBadges(bdEntry, bdBadges)
  /\ bdPc' = "renderBadges"
  /\ UNCHANGED <<bdEntry, bdBadges, lkVars, bibVars, srtVars, fmtVars, sanVars, ttVars, stVars>>

\* bib.formatEntry(entry, {badges})
BdFormatEntry ==
  /\ bdPc = "input"
  /\ bdOut' = formatEntry(bdEntry, ("badges" :> bdBadges), "plain")
  /\ bdPc' = "formatEntry"
  /\ UNCHANGED <<bdEntry, bdBadges, lkVars, bibVars, srtVars, fmtVars, sanVars, ttVars, stVars>>

NextBadges == BdAddBadge \/ BdRenderBadges \/ BdFormatEntry

SpecBadges == BdInit /\ [][NextBadges]_vars

(***************************************************************************)
(* The style run: Bibliographies constructed one after the other in one    *)
(* process, each with its style selector; the registry of templates is the *)
(* engine's, global to the process, and the host may add a template of its *)
(* own to it (test/index.test.ts, "accepts pre-registered template names").*)
(***************************************************************************)

\* Two raw styles, and a third with a blank in front.
StyleOne ==
  << "<", "s", "t", "y", "l", "e", " ", "i", "d", "=", "\"", "8", "8", "7",
     "6", "3", "8", "\"", "/", ">" >>

StyleTwo ==
  << "<", "s", "t", "y", "l", "e", " ", "i", "d", "=", "\"", "1", "3", "0",
     "3", "0", "3", "6", "\"", "/", ">" >>

\* The name under which the host registers its own template.
HostName == <<"m", "i", "n", "e">>

\* The paths of the style run: a style file and an empty file.
StylePath == <<"s", ".", "c", "s", "l">>
EmptyPath == <<"e", ".", "c", "s", "l">>

\* The files of the working directory in the style run.
StyleFiles == (StylePath :> StyleOne) @@ (EmptyPath :> <<>>)

\* options.cslStyle in the style run: absent, empty, the built-in name, the
\* host's name, three raw styles, the two paths, and a word that is none of
\* these.
StyleSelectors ==
  { Undefined, Str(<<>>), Str(Apa), Str(HostName), Str(StyleOne), Str(StyleTwo),
    Str(StyleXml), Str(StylePath), Str(EmptyPath), Str(UnknownStyle) }

StInit ==
  /\ stPc = "run"
  /\ stTemplates = BuiltinTemplates
  /\ stLog = <<>>
  /\ LkIdle /\ BibIdle /\ SrtIdle /\ FmtIdle /\ SanIdle /\ TtIdle /\ BdIdle

\* What a construction leaves in the log: the selector, whether the
\* constructor threw, this.templateName, and the registry before and after.
StyleRecord(cslStyle, before, style) ==
  [style |-> cslStyle, threw |-> style.threw, name |-> style.name,
   before |-> before, after |-> style.templates]

\* new Bibliography({data, cslStyle}): this.registerStyle(options.cslStyle)
StConstruct ==
  /\ stPc = "run"
  /\ Len(stLog) < MaxStyled
  /\ \E cslStyle \in StyleSelectors :
       /\ stLog' = Append(stLog, StyleRecord(cslStyle, stTemplates,
                                             registerStyle(stTemplates, StyleFiles, cslStyle)))
       /\ stTemplates' = registerStyle(stTemplates, StyleFiles, cslStyle).templates
  /\ UNCHANGED <<stPc, lkVars, bibVars, srtVars, fmtVars, sanVars, ttVars, bdVars>>

\* config.templates.add("mine", xml), by the host.
StAddTemplate ==
  /\ stPc = "run"
  /\ HostName \notin DOMAIN stTemplates
  /\ stTemplates' = (HostName :> StyleXml) @@ stTemplates
  /\ UNCHANGED <<stPc, stLog, lkVars, bibVars, srtVars, fmtVars, sanVars, ttVars, bdVars>>

NextStyle == StConstruct \/ StAddTemplate

SpecStyle == StInit /\ [][NextStyle]_vars

(***************************************************************************)
(* Claims.                                                                 *)
(***************************************************************************)

\* C1: linkifyBareUrls is idempotent: linkifying the output of linkifyBareUrls
\* again returns that output unchanged, for every input string.
C1_Idempotent == lkPc = "twice" => lkOut2 = lkOut

HrefAttr == <<"h", "r", "e", "f", "=", "\"">>

\* Whether the attribute value that starts at position i of html starts with
\* http://, https:// or mailto:, in any case of the letters.
SafeSchemeAt(html, i) ==
  LET lower == toLowerCase(SubSeq(html, i, IF i + 7 < Len(html) THEN i + 7 ELSE Len(html)))
  IN  startsWith(lower, Http) \/ startsWith(lower, Https) \/ startsWith(lower, Mailto)

\* C2: in the html that formatEntry and formatHtml return, every href (the
\* engine writes none, so each is one that a title link, a badge or the
\* linkifier added) has a value that starts with http://, https:// or mailto:,
\* whatever the fields of the entry, the title-link candidates and the badges.
C2_SafeHrefs ==
  fmtPc \in {"formatEntry", "formatHtml"} =>
    \A i \in 1..Len(fmtOut) :
      OccursAt(fmtOut, i, HrefAttr) => SafeSchemeAt(fmtOut, i + Len(HrefAttr))

\* A script URL in the url field, a badge whose template is the field value,
\* and still an anchor in the output.
C2_Witness ==
  /\ fmtPc = "formatHtml"
  /\ "url" \in DOMAIN fmtEntries[1].raw
  /\ fmtEntries[1].raw["url"] = JavascriptUrl
  /\ "badges" \in DOMAIN fmtOptions.of
  /\ fmtOptions.of["badges"][1] = ValueBadge
  /\ "titleLink" \notin DOMAIN fmtOptions.of
  /\ \E i \in 1..Len(fmtOut) : OccursAt(fmtOut, i, HrefAttr)

\* The names a declared list holds.
Declared(list) == IF list = Undefined THEN {} ELSE {list.of[i] : i \in 1..Len(list.of)}

\* The labels of the raw records.
Labels(rawEntries) == {rawEntries[i].label : i \in 1..Len(rawEntries)}

\* C3: after construction, the field names of entry.custom are exactly the
\* declared names that the entry's raw record itself contains, and each custom
\* value is the string of the raw value.
C3_CustomExact ==
  bibPc = "ready" =>
    \A i \in 1..Len(entries) :
      /\ DOMAIN entries[i].custom = Declared(options.customFields) \cap DOMAIN entries[i].raw
      /\ \A f \in DOMAIN entries[i].custom \cap DOMAIN entries[i].raw :
           entries[i].custom[f] = entries[i].raw[f]

Reverse(s) == [i \in 1..Len(s) |-> s[Len(s) + 1 - i]]

Keys(es) == [i \in 1..Len(es) |-> es[i].key]

\* The field the sort run sorts by.
SrtField == IF "by" \in DOMAIN srtBy THEN srtBy["by"] ELSE "year"

\* The comparison key of an entry: the year, 0 when absent, or the custom
\* field, the empty string when absent.
CmpKey(e, by) ==
  IF by = "year" THEN (IF e.year = Null THEN 0 ELSE e.year.num)
  ELSE IF by \in DOMAIN e.custom THEN e.custom[by]
  ELSE <<>>

CmpKeys(es, by) == [i \in 1..Len(es) |-> CmpKey(es[i], by)]

DistinctCmpKeys(es, by) ==
  \A i, j \in 1..Len(es) : i # j => CmpKey(es[i], by) # CmpKey(es[j], by)

\* C4, as stated: the keys of the ascending result, reversed, are the keys of
\* the descending result, for any array and any sort field.
C4_ReverseAscIsDesc ==
  {"asc", "desc"} \subseteq srtPc => Reverse(Keys(srtAsc)) = Keys(srtDesc)

\* C4: the comparison keys of the ascending result, reversed, are the
\* comparison keys of the descending result; the entry keys agree too when no
\* two entries of the array have equal comparison keys.
C4_ReverseAscIsDescDistinct ==
  {"asc", "desc"} \subseteq srtPc =>
    /\ Reverse(CmpKeys(srtAsc, SrtField)) = CmpKeys(srtDesc, SrtField)
    /\ DistinctCmpKeys(srtEntries, SrtField) => Reverse(Keys(srtAsc)) = Keys(srtDesc)

\* Three entries of distinct comparison keys, sorted both ways, not in order
\* to begin with.
C4_Witness ==
  /\ {"asc", "desc"} \subseteq srtPc
  /\ Len(srtEntries) = 3
  /\ DistinctCmpKeys(srtEntries, SrtField)
  /\ srtAsc # srtEntries
  /\ srtDesc # srtEntries

\* x before y in the order of the comparison keys.
CmpLess(by, x, y) == IF by = "year" THEN x < y ELSE StrLess(x, y)

\* The position of an entry of the sort run in the array handed to sort (the
\* keys of its entries differ).
SrtPos(e) == CHOOSE j \in 1..Len(srtEntries) : srtEntries[j] = e

\* Whether result is the array handed to sort, permuted, in the order asked
\* for, equal comparison keys in input order.
SortedStable(result, order) ==
  /\ Len(result) = Len(srtEntries)
  /\ \A i \in 1..Len(result) : \E j \in 1..Len(srtEntries) : result[i] = srtEntries[j]
  /\ \A i, j \in 1..Len(result) : i # j => result[i] # result[j]
  /\ \A i, j \in 1..Len(result) :
       i < j =>
         LET x == CmpKey(result[i], SrtField)
             y == CmpKey(result[j], SrtField)
         IN  /\ IF order = "asc" THEN ~CmpLess(SrtField, y, x) ELSE ~CmpLess(SrtField, x, y)
             /\ x = y => SrtPos(result[i]) < SrtPos(result[j])

\* C5: sort returns a permutation of its input, non-decreasing in the
\* comparison key for "asc" and non-increasing for "desc" and by default, and
\* entries of equal comparison keys keep their input order.
C5_SortedStable ==
  /\ "asc" \in srtPc => SortedStable(srtAsc, "asc")
  /\ "desc" \in srtPc => SortedStable(srtDesc, "desc")
  /\ "default" \in srtPc => SortedStable(srtDefault, "desc")

\* Three entries, two of them of equal comparison keys, sorted in the three
\* ways, and reordered by each.
C5_Witness ==
  /\ srtPc = {"asc", "desc", "default"}
  /\ Len(srtEntries) = 3
  /\ CmpKey(srtEntries[1], SrtField) = CmpKey(srtEntries[3], SrtField)
  /\ CmpKey(srtEntries[1], SrtField) # CmpKey(srtEntries[2], SrtField)
  /\ srtAsc # srtEntries
  /\ srtDesc # srtEntries
  /\ srtDefault = srtDesc

\* What a step from a constructed Bibliography keeps.
FrameStep ==
  bibPc = "ready" =>
    /\ entries' = entries
    /\ Len(arrays') >= Len(arrays)
    /\ \A i \in 1..Len(arrays) : arrays'[i] = arrays[i]
    /\ call'.op \in {"filter", "sort"} =>
         (Len(arrays') = Len(arrays) + 1 /\ call'.ret = Len(arrays'))

\* C6: a call on a constructed Bibliography leaves bib.entries, and with it
\* every field of every entry, as it was, and every array that the caller
\* holds, the one passed to sort included; filter and sort return a new array.
C6_Frame == [][FrameStep]_vars

\* sort has just returned, on an array of a former call, another order than
\* its argument has.
C6_Witness ==
  /\ bibPc = "ready"
  /\ call.op = "sort"
  /\ call.ref = 1
  /\ Len(arrays) = 2
  /\ arrays[2] # arrays[1]
  /\ Len(arrays[1]) = 2

\* Whether the custom fields of the entry hold every pair of the criteria.
Meets(e, criteria) ==
  \A k \in DOMAIN criteria : k \in DOMAIN e.custom /\ e.custom[k] = criteria[k]

\* C7: filter returns exactly the entries whose custom fields hold every pair
\* of the criteria, in the order of bib.entries: all of them for empty
\* criteria, none when no entry meets the criteria.
C7_FilterExact ==
  (bibPc = "ready" /\ call.op = "filter") =>
    LET result == arrays[call.ret]
        hits == {i \in 1..Len(entries) : Meets(entries[i], call.criteria)}
    IN  /\ Len(result) = Cardinality(hits)
        /\ \E f \in [1..Len(result) -> hits] :
             /\ \A i, j \in 1..Len(result) : i < j => f[i] < f[j]
             /\ \A i \in 1..Len(result) : result[i] = entries[f[i]]
        /\ call.criteria = EmptyObj => result = entries
        /\ hits = {} => result = <<>>

\* Two criteria that one of two entries meets.
C7_Witness ==
  /\ bibPc = "ready"
  /\ call.op = "filter"
  /\ Cardinality(DOMAIN call.criteria) = 2
  /\ Len(entries) = 2
  /\ Len(arrays[call.ret]) = 1
  /\ arrays[call.ret][1] = entries[2]

\* The citation key of a normalized record: its citation-key, or its id when
\* it has none.
CitationKey(csl) ==
  IF "citation-key" \in DOMAIN csl /\ csl["citation-key"] # <<>> THEN csl["citation-key"]
  ELSE csl["id"]

\* C8: construction yields one entry per normalized record, the i-th entry
\* for the i-th record and with its citation key, whatever the order of the
\* raw records.
C8_EntryPerRecord ==
  bibPc = "ready" =>
    /\ Len(entries) = Len(options.cslData)
    /\ \A i \in 1..Len(entries) :
         /\ entries[i].csl = options.cslData[i]
         /\ entries[i].key = CitationKey(options.cslData[i])

\* Two records of different keys, the raw records in the opposite order.
C8_Witness ==
  /\ bibPc = "ready"
  /\ Len(entries) = 2
  /\ Len(options.rawEntries) = 2
  /\ entries[1].key # entries[2].key
  /\ options.rawEntries[1].label = entries[2].key
  /\ options.rawEntries[2].label = entries[1].key

\* C9: construction does not fail and keeps every normalized record; the entry
\* of a record whose key is the label of no raw record has the empty mapping
\* as raw and as custom.
C9_MissRecovered ==
  /\ bibPc # "threw"
  /\ bibPc = "ready" =>
       /\ Len(entries) = Len(options.cslData)
       /\ \A i \in 1..Len(entries) :
            entries[i].key \notin Labels(options.rawEntries) =>
              entries[i].raw = EmptyObj /\ entries[i].custom = EmptyObj

\* C10: no two entries of a constructed Bibliography have the same key.
C10_UniqueKeys ==
  bibPc = "ready" =>
    \A i, j \in 1..Len(entries) : i # j => entries[i].key # entries[j].key

\* The positions of the candidate that hold no whitespace.
NonBlank(s) == {k \in 1..Len(s) : ~IsSpace(s[k])}

\* The candidate between its first and its last character that is no
\* whitespace.
Core(s) ==
  IF NonBlank(s) = {} THEN <<>>
  ELSE SubSeq(s, CHOOSE i \in NonBlank(s) : \A k \in NonBlank(s) : i <= k,
                 CHOOSE j \in NonBlank(s) : \A k \in NonBlank(s) : k <= j)

\* Whether the scheme of t, the characters in front of its first colon, is
\* the name, in any case of the letters.
SchemeIs(t, name) ==
  /\ Len(t) > Len(name)
  /\ t[Len(name) + 1] = ":"
  /\ \A k \in 1..Len(name) : LowerChar(t[k]) = name[k]

AllowedSchemes ==
  { <<"h", "t", "t", "p">>, <<"h", "t", "t", "p", "s">>, <<"m", "a", "i", "l", "t", "o">> }

HttpsX == Https \o <<"x">>
MailtoAB == Mailto \o <<"a", "@", "b", ".", "c", "o", "m">>
JavascriptAlert ==
  << "j", "a", "v", "a", "s", "c", "r", "i", "p", "t", ":", "a", "l", "e",
     "r", "t", "(", "1", ")" >>

\* C11: sanitizeUrl returns null for an empty or whitespace-only candidate and
\* for every candidate whose scheme is not http, https or mailto in any case
\* of the letters; what it returns otherwise is the candidate without its
\* surrounding whitespace; it accepts https://x and mailto:a@b.com and
\* rejects javascript:alert(1).
C11_Sanitize ==
  sanPc = "done" =>
    /\ NonBlank(sanUrl) = {} => sanOut = Null
    /\ (\A name \in AllowedSchemes : ~SchemeIs(Core(sanUrl), name)) => sanOut = Null
    /\ sanOut # Null => sanOut = Str(Core(sanUrl))
    /\ sanUrl = HttpsX => sanOut = Str(HttpsX)
    /\ sanUrl = MailtoAB => sanOut = Str(MailtoAB)
    /\ sanUrl = JavascriptAlert => sanOut = Null

\* A candidate in capitals between blanks, accepted without the blanks.
C11_Witness ==
  /\ sanPc = "done"
  /\ sanUrl = <<" ", "H", "T", "T", "P", "S", ":", "/", "/", "\t">>
  /\ sanOut = Str(<<"H", "T", "T", "P", "S", ":", "/", "/">>)

\* The letters, which start a tag name.
IsLetter(c) == (Code(c) >= 65 /\ Code(c) <= 90) \/ (Code(c) >= 97 /\ Code(c) <= 122)

\* Whether a tag starts at position i of s: "<" or "</", and a letter.
TagStartsAt(s, i) ==
  /\ s[i] = "<"
  /\ i < Len(s)
  /\ \/ IsLetter(s[i + 1])
     \/ s[i + 1] = "/" /\ i + 1 < Len(s) /\ IsLetter(s[i + 2])

\* The position of the ">" that closes the tag scanned from position i on, or
\* 0: a ">" between the quotes of an attribute value does not close the tag.
\* quote is the quote that is open ("" for none); a quote opens a value only
\* behind "=".
RECURSIVE TagCloseFrom(_, _, _, _)
TagCloseFrom(s, i, quote, afterEq) ==
  IF i > Len(s) THEN 0
  ELSE IF quote # "" THEN TagCloseFrom(s, i + 1, IF s[i] = quote THEN "" ELSE quote, FALSE)
  ELSE IF s[i] = ">" THEN i
  ELSE IF afterEq /\ s[i] \in {"\"", "'"} THEN TagCloseFrom(s, i + 1, s[i], FALSE)
  ELSE TagCloseFrom(s, i + 1, "", s[i] = "=" \/ (afterEq /\ IsSpace(s[i])))

\* The tags of s from position i on, each from its "<" to the ">" that closes
\* it.
RECURSIVE HtmlTagsFrom(_, _)
HtmlTagsFrom(s, i) ==
  LET lt == LeastIn({j \in i..Len(s) : TagStartsAt(s, j)}, i, Len(s))
      gt == IF lt = 0 THEN 0 ELSE TagCloseFrom(s, lt + 1, "", FALSE)
  IN  IF gt = 0 THEN {} ELSE {SubSeq(s, lt, gt)} \cup HtmlTagsFrom(s, gt + 1)

\* C12: every tag of the input of linkifyBareUrls, from its "<" to the ">"
\* that closes it, attribute values included, appears unchanged in the output:
\* no URL inside an attribute value is wrapped or altered.
C12_TagsUnchanged ==
  lkPc \in {"once", "twice"} =>
    \A t \in HtmlTagsFrom(lkHtml, 1) : includes(lkOut, t)

\* Whether the token is one the scanners take for a tag.
IsTagToken(token) == token # <<>> /\ token[1] = "<"

\* Whether the tag opens (prefix "<") or closes (prefix "</") an element of
\* the name, in any case of the letters.
NamesTag(token, prefix, name) ==
  /\ Len(token) >= Len(prefix) + Len(name)
  /\ SubSeq(token, 1, Len(prefix)) = prefix
  /\ \A k \in 1..Len(name) : LowerChar(token[Len(prefix) + k]) = name[k]
  /\ Len(token) = Len(prefix) + Len(name) \/ ~IsWord(token[Len(prefix) + Len(name) + 1])

\* The tags among tokens[1..k-1] that open or close an element of the name.
TagsOfName(tokens, k, name) ==
  {j \in 1..(k - 1) :
     /\ IsTagToken(tokens[j])
     /\ NamesTag(tokens[j], <<"<">>, name) \/ NamesTag(tokens[j], <<"<", "/">>, name)}

\* Whether token k lies in an element of the name: the last tag of the name
\* in front of it opens one.
InElement(tokens, k, name) ==
  /\ TagsOfName(tokens, k, name) # {}
  /\ NamesTag(tokens[CHOOSE j \in TagsOfName(tokens, k, name) :
                       \A i \in TagsOfName(tokens, k, name) : i <= j],
              <<"<">>, name)

ScannedNames ==
  { <<"a">>, <<"s", "c", "r", "i", "p", "t">>, <<"s", "t", "y", "l", "e">> }

\* Whether token k is scanned while one of the three flags is active.
Flagged(tokens, k) == \E name \in ScannedNames : InElement(tokens, k, name)

\* The token of linkTitle's html that the title is linked in: the first text
\* token, scanned with no flag active, that the pattern of the title matches
\* (0 for none).
LinkedToken(tokens, title) ==
  LeastIn({k \in 1..Len(tokens) :
             /\ ~IsTagToken(tokens[k])
             /\ ~Flagged(tokens, k)
             /\ PatternStart(tokens[k], 1, buildHtmlTextPattern(title)) # 0},
          1, Len(tokens))

\* C13: linkTitle and linkifyBareUrls leave unchanged every text token that
\* is scanned while the inside-anchor, inside-script or inside-style flag is
\* active (and every tag): the output is the tokens of the input in their
\* order, with only text tokens scanned under no flag rewritten, by
\* linkifyBareUrls each on its own and by linkTitle at most one of them.
C13_FlaggedUnchanged ==
  LET tokens == splitTags(ttHtml)
  IN  /\ ttPc = "linkify" =>
           ttOut = Concat([k \in 1..Len(tokens) |->
                             IF IsTagToken(tokens[k]) \/ Flagged(tokens, k) THEN tokens[k]
                             ELSE LinkifyText(tokens[k], 1)])
      /\ ttPc = "linkTitle" =>
           IF ttTitle = <<>> \/ LinkedToken(tokens, ttTitle) = 0 THEN ttOut = ttHtml
           ELSE /\ startsWith(ttOut, ConcatRange(tokens, 1, LinkedToken(tokens, ttTitle) - 1))
                /\ endsWith(ttOut, ConcatRange(tokens, LinkedToken(tokens, ttTitle) + 1,
                                               Len(tokens)))
                /\ Len(ttOut) >= Len(ttHtml)

\* A URL and the title inside an anchor, a script and a style, and the same
\* outside: only the text outside is rewritten.
C13_Witness ==
  /\ ttPc \in {"linkify", "linkTitle"}
  /\ Len(splitTags(ttHtml)) >= 5
  /\ \E k \in 1..Len(splitTags(ttHtml)) :
       /\ ~IsTagToken(splitTags(ttHtml)[k])
       /\ Flagged(splitTags(ttHtml), k)
       /\ \/ includes(splitTags(ttHtml)[k], HttpX) /\ ttPc = "linkify"
          \/ includes(splitTags(ttHtml)[k], ttTitle) /\ ttTitle # <<>> /\ ttPc = "linkTitle"
  /\ ttOut # ttHtml

\* Whether the tag opens or closes an anchor, a script or a style.
IsScannedTag(token) ==
  \E name \in ScannedNames :
    NamesTag(token, <<"<">>, name) \/ NamesTag(token, <<"<", "/">>, name)

\* The text of tokens[i..j]: the tokens that are no tags, in their order.
TextOf(tokens, i, j) ==
  Concat([k \in 1..(j - i + 1) |->
            IF IsTagToken(tokens[i + k - 1]) THEN <<>> ELSE tokens[i + k - 1]])

\* The text of an html: the html without its tags.
StripTags(html) == TextOf(splitTags(html), 1, Len(splitTags(html)))

\* Whether tokens[i..j] is text outside anchor, script and style regions that
\* only inline markup interrupts.
InlineRun(tokens, i, j) ==
  \A k \in i..j :
    IF IsTagToken(tokens[k]) THEN ~IsScannedTag(tokens[k]) ELSE ~Flagged(tokens, k)

\* Whether the escaped title occurs in the html outside anchor, script and
\* style regions: in one text run, or in a text that inline tags interrupt.
TitleOccurs(html, title) ==
  /\ title # <<>>
  /\ \E i \in 1..Len(splitTags(html)) : \E j \in i..Len(splitTags(html)) :
       /\ InlineRun(splitTags(html), i, j)
       /\ includes(TextOf(splitTags(html), i, j), escapeHtml(title))

\* The positions of s at which p occurs.
Occurrences(s, p) == {i \in 1..Len(s) : OccursAt(s, i, p)}

\* Whether out holds exactly one anchor of the href, and the text the anchor
\* encloses is the escaped title.
OneAnchorAround(out, href, title) ==
  /\ Cardinality(Occurrences(out, AnchorOpen(href))) = 1
  /\ \E i \in Occurrences(out, AnchorOpen(href)) :
       \E j \in Occurrences(out, AnchorClose) :
         /\ j >= i + Len(AnchorOpen(href))
         /\ \A k \in Occurrences(out, AnchorClose) : k > i => j <= k
         /\ StripTags(SubSeq(out, i + Len(AnchorOpen(href)), j - 1)) = escapeHtml(title)

\* C14: when the escaped title occurs in the html outside anchor, script and
\* style regions (in a plain text run, wholly inside inline markup, or broken
\* across inline markup), linkTitle returns the html with exactly one anchor
\* of the title URL, around that title, and the text of the html is kept.
C14_TitleLinkedOnce ==
  (ttPc = "linkTitle" /\ TitleOccurs(ttHtml, ttTitle)) =>
    /\ OneAnchorAround(ttOut, escapeAttr(ScanUrl), ttTitle)
    /\ StripTags(ttOut) = StripTags(ttHtml)

\* The value of a candidate field: the raw value, else the value of the
\* normalized record under the name in capitals, else under the name.
CandidateValue(entry, field) ==
  IF ~IsNullish(Get(entry.raw, field)) THEN Get(entry.raw, field)
  ELSE IF ~IsNullish(Get(entry.csl, UpperName(field)))
    THEN Get(entry.csl, UpperName(field))
  ELSE Get(entry.csl, field)

\* t without a leading "doi:" and the whitespace that follows it.
WithoutDoiPrefix(t) ==
  IF SchemeIs(t, <<"d", "o", "i">>) THEN Core(From(t, 5)) ELSE t

\* t without a trailing v<digits>.
WithoutVersion(t) ==
  IF \E i \in 1..(Len(t) - 1) : t[i] = "v" /\ \A k \in (i + 1)..Len(t) : IsDigit(t[k])
    THEN SubSeq(t, 1, (CHOOSE i \in 1..(Len(t) - 1) :
                         t[i] = "v" /\ \A k \in (i + 1)..Len(t) : IsDigit(t[k])) - 1)
  ELSE t

\* Whether t starts with http://, https:// or mailto:.
IsLink(t) ==
  \/ SchemeIs(t, <<"m", "a", "i", "l", "t", "o">>)
  \/ \E name \in {<<"h", "t", "t", "p">>, <<"h", "t", "t", "p", "s">>} :
       /\ SchemeIs(t, name)
       /\ Len(t) >= Len(name) + 3
       /\ t[Len(name) + 2] = "/" /\ t[Len(name) + 3] = "/"

\* The URL a candidate yields for its trimmed non-blank value t, or Null.
UrlOfValue(field, t) ==
  IF IsLink(t) THEN Str(t)
  ELSE IF field = "doi" THEN Str(DoiOrg \o WithoutDoiPrefix(t))
  ELSE IF field = "arxiv" THEN Str(ArxivAbs \o WithoutVersion(t))
  ELSE Null

\* The URL a candidate yields, or Null for an absent or blank one.
CandidateUrl(entry, field) ==
  IF IsNullish(CandidateValue(entry, field)) THEN Null
  ELSE IF NonBlank(String(CandidateValue(entry, field))) = {} THEN Null
  ELSE UrlOfValue(field, Core(String(CandidateValue(entry, field))))

\* The candidates of the options: the given order, else url, doi, arxiv.
CandidatesOf(opts) ==
  IF "titleLink" \in DOMAIN opts THEN opts["titleLink"]
  ELSE <<"url", "doi", "arxiv">>

\* The positions of the candidates that yield a URL.
Usable(entry, fields) ==
  {k \in 1..Len(fields) : CandidateUrl(entry, fields[k]) # Null}

\* The html in front of the badge container.
BeforeBadges(html) ==
  IF Occurrences(html, SpanOpen) = {} THEN html
  ELSE SubSeq(html, 1, (CHOOSE i \in Occurrences(html, SpanOpen) :
                          \A k \in Occurrences(html, SpanOpen) : i <= k) - 1)

\* C15: resolveTitleLink returns the URL of the first candidate, in the
\* given order (default url, doi, arxiv), that yields one: a non-blank value
\* with an http(s):// or mailto: scheme as it is, trimmed; else for doi
\* https://doi.org/ and the value without "doi:", for arxiv
\* https://arxiv.org/abs/ and the value without v<digits>; absent and blank
\* candidates and other values of other fields are passed over; null if no
\* candidate yields a URL, and then formatEntry adds no title anchor, while
\* otherwise the anchor it adds is the one of that first URL.
C15_FirstUsableCandidate ==
  /\ fmtPc = "resolveTitleLink" =>
       fmtOut = IF Usable(fmtEntries[1], CandidatesOf(fmtOptions.of)) = {} THEN Null
                ELSE CandidateUrl(fmtEntries[1],
                       CandidatesOf(fmtOptions.of)[
                         CHOOSE k \in Usable(fmtEntries[1], CandidatesOf(fmtOptions.of)) :
                           \A j \in Usable(fmtEntries[1], CandidatesOf(fmtOptions.of)) :
                             k <= j])
  /\ fmtPc = "formatEntry" =>
       IF Usable(fmtEntries[1], CandidatesOf(fmtOptions.of)) = {}
         THEN ~includes(BeforeBadges(fmtOut), <<"<", "a", " ">>)
       ELSE Cardinality(Occurrences(BeforeBadges(fmtOut), <<"<", "a", " ">>)) = 1
            /\ includes(BeforeBadges(fmtOut),
                        AnchorOpen(escapeAttr(
                          CandidateUrl(fmtEntries[1],
                            CandidatesOf(fmtOptions.of)[
                              CHOOSE k \in Usable(fmtEntries[1], CandidatesOf(fmtOptions.of)) :
                                \A j \in Usable(fmtEntries[1], CandidatesOf(fmtOptions.of)) :
                                  k <= j]).chars)))

\* The url candidate holds a word and is passed over, the doi candidate
\* yields the URL, and the arxiv candidate behind it would yield one too.
C15_Witness ==
  /\ fmtPc = "resolveTitleLink"
  /\ "titleLink" \notin DOMAIN fmtOptions.of
  /\ Get(fmtEntries[1].raw, "url") = Str(<<"x">>)
  /\ Get(fmtEntries[1].csl, "URL") = Undefined
  /\ Usable(fmtEntries[1], <<"url", "doi", "arxiv">>) = {2, 3}
  /\ fmtOut = Str(DoiOrg \o <<"1", "0", ".", "1", "/", "x">>)

\* Whether the record or the custom fields of the entry hold the field.
HasField(entry, field) == field \in DOMAIN entry.raw \/ field \in DOMAIN entry.custom

\* The string value of a field the entry holds.
FieldString(entry, field) ==
  IF field \in DOMAIN entry.raw THEN entry.raw[field] ELSE entry.custom[field]

\* The value to insert for a badge whose field the entry holds: the first
\* capture group of the match if the pattern defines one, else the whole
\* match; the string value without a pattern; Null if the pattern does not
\* match.
InsertValueOf(entry, badge) ==
  IF badge.match = "none" THEN Str(FieldString(entry, badge.field))
  ELSE IF RegexMatch(badge.match, FieldString(entry, badge.field)) = Null THEN Null
  ELSE IF RegexMatch(badge.match, FieldString(entry, badge.field)).of[2] # Undefined
    THEN RegexMatch(badge.match, FieldString(entry, badge.field)).of[2]
  ELSE RegexMatch(badge.match, FieldString(entry, badge.field)).of[1]

\* The template with the value written in place of every placeholder.
RECURSIVE Substituted(_, _)
Substituted(url, value) ==
  IF url = <<>> THEN <<>>
  ELSE IF OccursAt(url, 1, Placeholder) THEN value \o Substituted(From(url, 3), value)
  ELSE <<url[1]>> \o Substituted(Tail(url), value)

HrefOf(href) == <<" ", "h", "r", "e", "f", "=", "\"">> \o href \o <<"\"", ">">>

\* C16: for one badge descriptor whose field the entry holds: with a pattern
\* that the value does not match, renderBadges returns nothing; otherwise the
\* value inserted for every placeholder of the URL template is the first
\* capture group if the pattern defines one, else the whole match, and
\* without a pattern the string value of the field, unchanged, so that the
\* badge links to the template with that value in it whenever the safety
\* gate accepts that URL.
C16_InsertValue ==
  (bdPc = "renderBadges" /\ Len(bdBadges) = 1 /\ HasField(bdEntry, bdBadges[1].field)) =>
    IF InsertValueOf(bdEntry, bdBadges[1]) = Null THEN bdOut = <<>>
    ELSE IsLink(Core(Substituted(bdBadges[1].url, InsertValueOf(bdEntry, bdBadges[1]).chars)))
           => includes(bdOut,
                       HrefOf(escapeAttr(Core(Substituted(bdBadges[1].url,
                                  InsertValueOf(bdEntry, bdBadges[1]).chars)))))

\* Whether the descriptor fails locally: the entry holds its field neither
\* in the record nor in the custom fields, or its pattern does not match the
\* value, or the safety gate rejects the URL built for it.
FailsLocally(entry, badge) ==
  \/ ~HasField(entry, badge.field)
  \/ InsertValueOf(entry, badge) = Null
  \/ sanitizeUrl(FillTemplate(badge.url, 1, InsertValueOf(entry, badge).chars)) = Null

\* The descriptors of the list that do not fail locally, in their order.
RECURSIVE Surviving(_, _)
Surviving(entry, badges) ==
  IF badges = <<>> THEN <<>>
  ELSE IF FailsLocally(entry, Head(badges)) THEN Surviving(entry, Tail(badges))
  ELSE <<Head(badges)>> \o Surviving(entry, Tail(badges))

\* C17: a descriptor that fails locally is omitted without affecting the
\* others: renderBadges returns what it returns for the list without the
\* failing descriptors, and formatEntry returns what it returns for that
\* list, base html and title link included.
C17_FailingOmitted ==
  /\ bdPc = "renderBadges" => bdOut = renderBadges(bdEntry, Surviving(bdEntry, bdBadges))
  /\ bdPc = "formatEntry" =>
       bdOut = formatEntry(bdEntry, ("badges" :> Surviving(bdEntry, bdBadges)), "plain")

\* The badges that the descriptors produce, in the order of the descriptors.
ProducedBadges(entry, badges) ==
  ConcatRange([k \in 1..Len(badges) |-> BadgePart(entry, badges[k])], 1, Len(badges))

\* The strings with one space between each two of them.
RECURSIVE SpaceSeparated(_)
SpaceSeparated(parts) ==
  IF Len(parts) = 1 THEN parts[1]
  ELSE parts[1] \o <<" ">> \o SpaceSeparated(Tail(parts))

\* C18: renderBadges returns the badges that produce output, in the order of
\* their descriptors, with exactly one space between two of them, inside
\* exactly one <span class="bib-links">, and the empty string when no
\* descriptor produces output; formatEntry appends a space and that span to
\* the html of the entry, and appends nothing when there is no badge.
C18_BadgeContainer ==
  /\ bdPc = "renderBadges" =>
       IF ProducedBadges(bdEntry, bdBadges) = <<>> THEN bdOut = <<>>
       ELSE /\ bdOut = SpanOpen \o SpaceSeparated(ProducedBadges(bdEntry, bdBadges))
                       \o SpanClose
            /\ Cardinality(Occurrences(bdOut, SpanOpen)) = 1
  /\ bdPc = "formatEntry" =>
       IF ProducedBadges(bdEntry, bdBadges) = <<>>
         THEN bdOut = formatEntry(bdEntry, EmptyObj, "plain")
       ELSE bdOut = formatEntry(bdEntry, EmptyObj, "plain") \o <<" ">> \o SpanOpen
                    \o SpaceSeparated(ProducedBadges(bdEntry, bdBadges)) \o SpanClose

\* Three descriptors of which the first and the last produce a badge.
C18_Witness ==
  /\ bdPc = "renderBadges"
  /\ Len(bdBadges) = 3
  /\ bdBadges[1].match = "zbl" /\ bdBadges[2].field = "note" /\ bdBadges[3].match = "digits"
  /\ Len(ProducedBadges(bdEntry, bdBadges)) = 2
  /\ Cardinality(Occurrences(bdOut, AnchorClose \o <<" ">> \o <<"<", "a", " ">>)) = 1

\* The lines of a string: the parts between its line breaks.
RECURSIVE LinesOf(_)
LinesOf(html) ==
  IF IndexFrom(html, 1, "\n") = 0 THEN <<html>>
  ELSE <<SubSeq(html, 1, IndexFrom(html, 1, "\n") - 1)>>
       \o LinesOf(From(html, IndexFrom(html, 1, "\n") + 1))

\* The item element of the list: <div> in a <div> list, else <li>.
ItemTagOf(opts) ==
  IF "list" \in DOMAIN opts /\ opts["list"] = <<"d", "i", "v">> THEN <<"d", "i", "v">>
  ELSE <<"l", "i">>

\* The item of an entry: the element with the key of the entry as data
\* attribute around the body the engine writes for the record at position i,
\* without the whitespace around it.
OwnItem(entry, i, opts, shape) ==
  ItemOpen(ItemTagOf(opts), entry.key) \o Core(EngineBody(entry.csl, i, shape))
  \o <<"<", "/">> \o ItemTagOf(opts) \o <<">">>

\* C19: formatHtml on a non-empty list returns one item per entry between the
\* line of the opening and the line of the closing list tag, in the order
\* of the list, the i-th item with the key of the i-th entry as data
\* attribute and the html of that entry in it.
C19_ItemPerEntry ==
  (fmtPc = "formatHtml" /\ fmtEntries # <<>>) =>
    /\ Len(LinesOf(fmtOut)) = Len(fmtEntries) + 2
    /\ \A i \in 1..Len(fmtEntries) :
         LinesOf(fmtOut)[i + 1] = OwnItem(fmtEntries[i], i, fmtOptions.of, fmtOptions.shape)

\* C20: formatHtml on a non-empty list calls the engine exactly once, with
\* the normalized records of all the entries in the order of the list and
\* with the engine's sorting off.
C20_OneEngineCall ==
  (fmtPc = "formatHtml" /\ fmtEntries # <<>>) =>
    /\ Len(fmtEngine) = 1
    /\ fmtEngine[1].nosort
    /\ Len(fmtEngine[1].data) = Len(fmtEntries)
    /\ \A i \in 1..Len(fmtEntries) : fmtEngine[1].data[i] = fmtEntries[i].csl

\* Three entries, the ids of the records not in their alphabetic order.
C20_Witness ==
  /\ fmtPc = "formatHtml"
  /\ Len(fmtEntries) = 3
  /\ fmtEntries[1].csl["id"] = KeyB
  /\ fmtEntries[2].csl["id"] = <<"c">>
  /\ fmtEntries[3].csl["id"] = KeyA
  /\ Len(fmtEngine) = 1
  /\ fmtOptions.shape = "numbered"

\* C21: formatHtml returns the empty string for an empty list of entries,
\* whatever the options: no list element and no item.
C21_EmptyList ==
  (fmtPc = "formatHtml" /\ fmtEntries = <<>>) => fmtOut = <<>>

\* formatHtml was called on no entries with a <div> list and linkification
\* off.
C21_Witness ==
  /\ fmtPc = "formatHtml"
  /\ fmtEntries = <<>>
  /\ fmtOptions.of = ("list" :> <<"d", "i", "v">>) @@ ("linkifyUrls" :> FALSE)
  /\ fmtOut = <<>>

\* Whether the text starts, after blanks, with "<".
StartsXml(text) ==
  \E i \in 1..Len(text) : text[i] = "<" /\ \A k \in 1..(i - 1) : IsSpace(text[k])

GivenSelector(e) == ~IsNullish(e.style) /\ e.style.chars # <<>>

\* The raw style text of a selector: the content of the file at that path,
\* else the selector itself.
StyleTextOf(e) ==
  IF e.style.chars \in DOMAIN StyleFiles THEN StyleFiles[e.style.chars] ELSE e.style.chars

\* Whether the record is one of a construction given a raw style text: a
\* selector that is no registered name at the time and that was accepted.
IsRawStyle(e) ==
  /\ GivenSelector(e)
  /\ e.style.chars \notin DOMAIN e.before
  /\ ~e.threw

\* C22: across the constructions of the run that are given raw style texts,
\* two different texts get different names and the same text the same name,
\* and after each such construction the registry holds, under the name of
\* the construction, the text of that construction (no text of another
\* style is kept or put under it).
C22_InjectiveNames ==
  /\ \A i, j \in 1..Len(stLog) :
       (IsRawStyle(stLog[i]) /\ IsRawStyle(stLog[j])) =>
         (stLog[i].name = stLog[j].name <=> StyleTextOf(stLog[i]) = StyleTextOf(stLog[j]))
  /\ \A i \in 1..Len(stLog) :
       IsRawStyle(stLog[i]) => stLog[i].after[stLog[i].name] = StyleTextOf(stLog[i])

\* Whether the selector of a construction is unrecognized: given, and neither a
\* registered name, nor the path of an existing file, nor style text.
Unrecognized(e) ==
  /\ GivenSelector(e)
  /\ e.style.chars \notin DOMAIN e.before
  /\ e.style.chars \notin DOMAIN StyleFiles
  /\ ~StartsXml(e.style.chars)

\* C23: a construction throws exactly when its style selector is given and is
\* neither a registered template name, nor the path of an existing file, nor
\* style text, and then it registers nothing and sets no template name; with
\* no selector it uses 'apa' and with a registered name it uses that name,
\* both without registering anything.
C23_ThrowsExactly ==
  \A i \in 1..Len(stLog) :
    /\ stLog[i].threw <=> Unrecognized(stLog[i])
    /\ stLog[i].threw => (stLog[i].after = stLog[i].before /\ stLog[i].name = <<>>)
    /\ ~GivenSelector(stLog[i]) =>
         (~stLog[i].threw /\ stLog[i].name = Apa /\ stLog[i].after = stLog[i].before)
    /\ (GivenSelector(stLog[i]) /\ stLog[i].style.chars \in DOMAIN stLog[i].before) =>
         (~stLog[i].threw /\ stLog[i].name = stLog[i].style.chars
          /\ stLog[i].after = stLog[i].before)

\* The characters the claim excludes from a match besides whitespace, and
\* the characters urlRegex excludes.
ClaimExcluded == {"<", ">", "\"", "'", ",", ";"}
CodeExcluded == ClaimExcluded \cup {")"}

InRun(c, excluded) == ~IsSpace(c) /\ c \notin excluded

\* The length of the scheme that starts at position a of s (0 for none).
SchemeLenAt(s, a) ==
  IF OccursAt(s, a, Https) THEN Len(Https) ELSE IF OccursAt(s, a, Http) THEN Len(Http) ELSE 0

\* Whether a scheme and at least one more character of the run start at a.
StartsUrl(s, a, excluded) ==
  /\ SchemeLenAt(s, a) # 0
  /\ a + SchemeLenAt(s, a) <= Len(s)
  /\ InRun(s[a + SchemeLenAt(s, a)], excluded)

\* Whether a match starts at a, the matches taken left to right: no earlier
\* URL runs on to position a.
IsMatchStart(s, a, excluded) ==
  /\ StartsUrl(s, a, excluded)
  /\ ~\E b \in 1..(a - 1) :
        StartsUrl(s, b, excluded) /\ \A k \in b..(a - 1) : InRun(s[k], excluded)

\* The last position of the match that starts at a.
MatchLast(s, a, excluded) ==
  CHOOSE e \in a..Len(s) :
    /\ \A k \in a..e : InRun(s[k], excluded)
    /\ e = Len(s) \/ ~InRun(s[e + 1], excluded)

\* The last position of the match that starts at a once the trailing run of
\* . , ; : ! ? ) is stripped.
StrippedLast(s, a, excluded) ==
  CHOOSE j \in a..MatchLast(s, a, excluded) :
    /\ s[j] \notin {".", ",", ";", ":", "!", "?", ")"}
    /\ \A k \in (j + 1)..MatchLast(s, a, excluded) :
         s[k] \in {".", ",", ";", ":", "!", "?", ")"}

\* The positions of the text at which a match starts, and those at which
\* the stripped URL of a match ends.
MatchStarts(s, excluded) == {a \in 1..Len(s) : IsMatchStart(s, a, excluded)}
StrippedEnds(s, starts, excluded) == {StrippedLast(s, a, excluded) : a \in starts}

\* What the text gives at position i: the character, after the open tag of
\* the anchor of a match that starts there, and before the close tag of the
\* anchor of a match whose stripped URL ends there.
ExpectedAt(s, i, starts, ends, excluded) ==
  (IF i \in starts
     THEN AnchorOpen(escapeAttr(SubSeq(s, i, StrippedLast(s, i, excluded))))
     ELSE <<>>)
  \o << s[i] >>
  \o (IF i \in ends THEN AnchorClose ELSE <<>>)

ExpectedMarked(s, starts, ends, excluded) ==
  Concat([i \in 1..Len(s) |-> ExpectedAt(s, i, starts, ends, excluded)])

ExpectedText(s, excluded) ==
  ExpectedMarked(s, MatchStarts(s, excluded),
                 StrippedEnds(s, MatchStarts(s, excluded), excluded), excluded)

\* The tokens with every text token outside the three kinds of element
\* linked as stated.
ExpectedLinkified(tokens, excluded) ==
  Concat([k \in 1..Len(tokens) |->
            IF IsTagToken(tokens[k]) \/ Flagged(tokens, k) THEN tokens[k]
            ELSE ExpectedText(tokens[k], excluded)])

\* C24 as stated: in every text token outside anchor, script and style
\* elements, each run of a scheme and one or more characters that are not
\* whitespace, an angle bracket, a quote, a comma or a semicolon is a match,
\* left to right; of each match the trailing run of . , ; : ! ? ) is
\* stripped, the stripped URL is wrapped in an anchor with the escaped URL as
\* href and the URL as text, and the stripped punctuation follows the anchor.
C24_AsStated ==
  lkPc = "once" => lkOut = ExpectedLinkified(splitTags(lkHtml), ClaimExcluded)

\* C24 amended: the same, the characters of a match being those that are
\* not whitespace, an angle bracket, a quote, a comma, a semicolon or a
\* closing parenthesis.
C24_UrlsLinked ==
  lkPc = "once" => lkOut = ExpectedLinkified(splitTags(lkHtml), CodeExcluded)

\* A URL with an ampersand, followed by a full stop and a parenthesis, linked.
C24_Witness ==
  /\ lkPc = "once"
  /\ lkHtml = Http \o <<"&", ".", ")">>
  /\ lkOut = AnchorOpen(Http \o <<"&", "a", "m", "p", ";">>) \o Http \o <<"&">>
               \o AnchorClose \o <<".", ")">>

\* What renderBadges returns for one badge when the URL handed to the safety
\* gate is unsafeUrl.
BadgeThroughGate(badge, unsafeUrl) ==
  WrapParts(BadgeOfUrl(badge, sanitizeUrl(unsafeUrl)))

\* C25: for one badge descriptor and an insertion value (values with "$"
\* included), the URL handed to the safety gate is the template with every
\* occurrence of the placeholder $1 replaced by the insertion value as it is,
\* and nothing else changed: renderBadges returns what the gate makes of that
\* URL.
C25_TemplateFilled ==
  ( /\ bdPc = "renderBadges"
    /\ Len(bdBadges) = 1
    /\ HasField(bdEntry, bdBadges[1].field)
    /\ InsertValueOf(bdEntry, bdBadges[1]) # Null ) =>
    bdOut = BadgeThroughGate(bdBadges[1],
              Substituted(bdBadges[1].url, InsertValueOf(bdEntry, bdBadges[1]).chars))

\* The token with an anchor of the href around its characters at..end.
WrappedAt(token, at, end, href) ==
  SubSeq(token, 1, at - 1) \o AnchorOpen(href) \o SubSeq(token, at, end) \o AnchorClose
  \o From(token, end + 1)

\* The tokens with the first match of the pattern in token k wrapped, and
\* every other token as it is.
OnlyTokenLinked(tokens, k, pattern, href) ==
  ConcatRange(tokens, 1, k - 1)
  \o WrappedAt(tokens[k], PatternStart(tokens[k], 1, pattern),
               PatternEnd(tokens[k], PatternStart(tokens[k], 1, pattern), pattern, 1), href)
  \o ConcatRange(tokens, k + 1, Len(tokens))

\* C26: linkTitle inserts at most one anchor per call: it wraps the first
\* match in the first eligible text token that holds a match and leaves every
\* other token, the later ones that hold the title too, unchanged; when the
\* pattern matches in no eligible token the html is returned character for
\* character.
C26_AtMostOneAnchor ==
  ttPc = "linkTitle" =>
    /\ Cardinality(Occurrences(ttOut, AnchorOpen(escapeAttr(ScanUrl)))) <= 1
    /\ IF LinkedToken(splitTags(ttHtml), ttTitle) = 0 THEN ttOut = ttHtml
       ELSE ttOut = OnlyTokenLinked(splitTags(ttHtml), LinkedToken(splitTags(ttHtml), ttTitle),
                                    buildHtmlTextPattern(ttTitle), escapeAttr(ScanUrl))

\* The title in two eligible tokens, linked in the first and not in the second.
C26_Witness ==
  /\ ttPc = "linkTitle"
  /\ ttTitle = <<"T">>
  /\ ttHtml = <<"T", "T", "<", "i", ">", "T">>
  /\ ttOut = AnchorOpen(escapeAttr(ScanUrl)) \o <<"T">> \o AnchorClose
               \o <<"T", "<", "i", ">", "T">>

\* Whether the flags are those of a text token k: each flag active exactly
\* when the last tag of its element in front of the token opens one.
FlagsAsTags(flags, tokens, k) ==
  /\ flags.insideAnchor <=> InElement(tokens, k, <<"a">>)
  /\ flags.insideScript <=> InElement(tokens, k, <<"s", "c", "r", "i", "p", "t">>)
  /\ flags.insideStyle <=> InElement(tokens, k, <<"s", "t", "y", "l", "e">>)

\* Whether the trace holds, for every text token, the flags of that token.
TraceAsTags(trace, tokens) ==
  /\ Len(trace) = Len(tokens)
  /\ \A k \in 1..Len(tokens) :
       ~IsTagToken(tokens[k]) => FlagsAsTags(trace[k], tokens, k)

\* C27: in both scanners, at every text token each of the three flags is
\* active exactly when the most recent tag of its element kind scanned
\* before the token is an opening tag, the name compared without regard to
\* case: the flags are booleans, each on its own, one closing tag clears a
\* flag whatever the number of opening tags before it, and all are inactive
\* at the start.
C27_FlagsFollowLastTag ==
  ((ttPc = "linkTitle" /\ ttTitle # <<>>) \/ ttPc = "linkify") =>
    TraceAsTags(ttFlags, splitTags(ttHtml))

\* Two opening anchor tags, one closing tag, and a text scanned with the
\* anchor flag inactive.
C27_Witness ==
  /\ ttPc = "linkTitle"
  /\ ttTitle = <<"T">>
  /\ ttHtml = <<"<", "a", ">", "<", "a", ">", "<", "/", "a", ">", "T">>
  /\ Len(ttFlags) = 7
  /\ ttFlags[7] = NoFlags
  /\ ttFlags[4].insideAnchor

\* The start of an anchor open tag as linkifyBareUrls writes it.
InsertedStart == <<"<", "a", " ">> \o HrefAttr

\* The first position >= i of s at which p occurs, or 0.
NextOccurrence(s, i, p) == LeastIn({j \in i..Len(s) : OccursAt(s, j, p)}, i, Len(s))

\* The output from position i on without the anchor tags that linkifyBareUrls
\* inserted: every open tag <a href="..."> and the close tag that follows it.
\* (The inputs of the run hold no href of their own.)
RECURSIVE WithoutInserted(_, _)
WithoutInserted(out, i) ==
  IF i > Len(out) THEN <<>>
  ELSE IF ~OccursAt(out, i, InsertedStart)
    THEN << out[i] >> \o WithoutInserted(out, i + 1)
  ELSE IF \/ NextOccurrence(out, i + Len(InsertedStart), <<"\"", ">">>) = 0
          \/ NextOccurrence(out, i + Len(InsertedStart), AnchorClose) = 0
    THEN From(out, i)
  ELSE SubSeq(out, NextOccurrence(out, i + Len(InsertedStart), <<"\"", ">">>) + 2,
              NextOccurrence(out, i + Len(InsertedStart), AnchorClose) - 1)
       \o WithoutInserted(out, NextOccurrence(out, i + Len(InsertedStart), AnchorClose)
                                 + Len(AnchorClose))

\* Whether an eligible text token holds a match of urlRegex.
HasEligibleMatch(tokens) ==
  \E k \in 1..Len(tokens) :
    /\ ~IsTagToken(tokens[k])
    /\ ~Flagged(tokens, k)
    /\ MatchStarts(tokens[k], CodeExcluded) # {}

\* C28: linkifyBareUrls only inserts anchor tags and never drops, reorders
\* or rewrites a character of its input: its output without the anchor open
\* and close tags that it inserted is the input, and an input with no bare
\* URL in an eligible text token is returned unchanged.
C28_OnlyInserts ==
  lkPc = "once" =>
    /\ WithoutInserted(lkOut, 1) = lkHtml
    /\ ~HasEligibleMatch(splitTags(lkHtml)) => lkOut = lkHtml

\* A close tag of the input's own in front of a linked URL with an ampersand
\* and a full stop.
C28_Witness ==
  /\ lkPc = "once"
  /\ lkHtml = AnchorClose \o Http \o <<"&", ".">>
  /\ lkOut = AnchorClose \o AnchorOpen(Http \o <<"&", "a", "m", "p", ";">>) \o Http
               \o <<"&">> \o AnchorClose \o <<".">>
  /\ WithoutInserted(lkOut, 1) = lkHtml

=============================================================================
